---- MODULE Spec2Model ----
(***************************************************************************)
(* Verification model of the lacc C compiler core: the type registry       *)
(* (src/parser/type.c), the struct/union declaration parser that drives it *)
(* (src/parser/declaration.c) and the System V parameter classifier        *)
(* (src/backend/x86_64/abi.c).                                             *)
(***************************************************************************)
EXTENDS Integers, Naturals, Sequences, FiniteSets, TLC

\* ------------------------------------------------------------------------
\* Bounds of the model (not program constants).
\* ------------------------------------------------------------------------
MaxSize == 5         \* struct/union objects plus member declarators parsed
MaxOpen == 2         \* nesting depth of member lists
MaxEqSize == 4       \* MaxSize of the type equality specification

\* ------------------------------------------------------------------------
\* State.
\* ------------------------------------------------------------------------
VARIABLES
    types,      \* type_registry: sequence of typetree objects; index = address
    ns_tag,     \* tag namespace: sequence of [name, obj] bindings
    open,       \* stack of struct/union objects whose member list is being parsed
    pending,    \* the type just defined in the specifiers of the next member
    unsound,    \* objects that were given a member of incomplete type
    ndecls,     \* member declarators parsed so far
    status,     \* "run", "exit" (error + exit(1)), "crash" (unbounded recursion)
    args,       \* classify_call: the argument types
    ret,        \* classify_call: the return type
    params,     \* classify_call: the classes of the arguments classified so far
    res,        \* classify_call: *res, the classes of the return value
    next_integer_reg,   \* classify_call: integer registers allocated
    int_regs,   \* the integer registers taken by each argument placed so far
    pc,         \* classify_call: "idle", "classify", "return", "place", "done"
    fn_name,    \* the function applied to fn_arg: its name, "" for none
    fn_arg,     \* its argument, a type of the registry
    fn_result,  \* what it returned, NULL before the call
    instr,      \* encode: the instruction record passed to it
    elf,        \* the text section: its size, the label's offset, the
                \* relocations and the pending label fixups recorded
    code,       \* encode: the struct code returned, or the abort
    encoded,    \* whether encode was called
    tokens,     \* parse: the declarations left in the token stream
    defs,       \* the buffer of definitions: def, cur, len
    fallback,   \* the definition that owns blocks made with an empty buffer
    last_def_returned,  \* parse: the static copy of its previous result
    heap,       \* the allocations: live blocks, next address, double frees
    retval,     \* the definition returned by the last call of parse
    log,        \* history: symbols buffered and returned, the last call
    ns_ident,   \* identifier namespace: the symbols added, in order
    diagnostics,    \* the calls of error(): message and parser position
    statements  \* the assignments emitted into the current block

parser == <<types, ns_tag, open, pending, unsound, ndecls, status>>
abi == <<args, ret, params, res, next_integer_reg, int_regs, pc>>
fnv == <<fn_name, fn_arg, fn_result>>
enc == <<instr, elf, code, encoded>>
prs == <<tokens, defs, fallback, last_def_returned, heap, retval, log>>
dcl == <<ns_ident, diagnostics, statements>>
later == <<fnv, enc, prs, dcl>>
vars == <<types, ns_tag, open, pending, unsound, ndecls, status,
          args, ret, params, res, next_integer_reg, int_regs, pc,
          fn_name, fn_arg, fn_result, instr, elf, code, encoded,
          tokens, defs, fallback, last_def_returned, heap, retval, log,
          ns_ident, diagnostics, statements>>

NULL == 0

\* enum qualifier, as the set of qualifier bits that are set.
Q_NONE == {}
Q_CONST == {"const"}

\* struct typetree, with the member list stored with the type that owns it.
Typetree(tt, sz, q, nx) ==
    [type |-> tt, size |-> sz, qualifier |-> q, next |-> nx,
     member |-> << >>, func_vararg |-> FALSE, tag_name |-> ""]

\* The basic types of type.c (global objects), at fixed addresses.
basic_type__char == Typetree("T_SIGNED", 1, Q_NONE, NULL)
basic_type__int == Typetree("T_SIGNED", 4, Q_NONE, NULL)
basic_type__unsigned_int == Typetree("T_UNSIGNED", 4, Q_NONE, NULL)
basic_type__long == Typetree("T_SIGNED", 8, Q_NONE, NULL)
basic_type__double == Typetree("T_REAL", 8, Q_NONE, NULL)
basic_type__float == Typetree("T_REAL", 4, Q_NONE, NULL)
basic_type__void == Typetree("T_VOID", 0, Q_NONE, NULL)
\* declaration_specifiers: a basic type copied and given a qualifier.
const_int == Typetree("T_SIGNED", 4, Q_CONST, NULL)

CHAR == 1
INT == 2
UINT == 3
LONG == 4
DOUBLE == 5
CINT == 6
VOID == 7

BasicRegistry ==
    << basic_type__char, basic_type__int, basic_type__unsigned_int,
       basic_type__long, basic_type__double, const_int, basic_type__void >>

NBasic == Len(BasicRegistry)

\* ------------------------------------------------------------------------
\* Predicates of lacc/typetree.h.
\* ------------------------------------------------------------------------
is_struct(reg, t) == reg[t].type = "T_STRUCT"
is_union(reg, t) == reg[t].type = "T_UNION"
is_struct_or_union(reg, t) == is_struct(reg, t) \/ is_union(reg, t)
is_function(reg, t) == reg[t].type = "T_FUNCTION"
is_pointer(reg, t) == reg[t].type = "T_POINTER"
is_array(reg, t) == reg[t].type = "T_ARRAY"
is_void(reg, t) == reg[t].type = "T_VOID"
is_unsigned(reg, t) == reg[t].type = "T_UNSIGNED"
is_integer(reg, t) == reg[t].type \in {"T_SIGNED", "T_UNSIGNED"}
is_object(reg, t) == ~is_function(reg, t)
is_tagged(reg, t) == is_struct_or_union(reg, t) /\ reg[t].next # NULL

nmembers(reg, t) == Len(reg[t].member)
get_member(reg, t, n) == reg[t].member[n]

unwrapped(reg, t) == IF is_tagged(reg, t) THEN reg[t].next ELSE t

size_of(reg, t) == IF is_tagged(reg, t) THEN reg[reg[t].next].size ELSE reg[t].size

Max(a, b) == IF a > b THEN a ELSE b

\* ------------------------------------------------------------------------
\* type_alignment. DIVERGES is the outcome of a recursion that re-enters a
\* type it is already computing (the C recursion never returns).
\* ------------------------------------------------------------------------
DIVERGES == -1

RECURSIVE type_alignment_rec(_, _, _)
RECURSIVE members_alignment(_, _, _, _, _)

members_alignment(reg, t, i, m, seen) ==
    IF i > nmembers(reg, t) THEN m
    ELSE LET d == type_alignment_rec(reg, get_member(reg, t, i).type, seen)
         IN IF d = DIVERGES THEN DIVERGES
            ELSE members_alignment(reg, t, i + 1, Max(d, m), seen)

type_alignment_rec(reg, t, seen) ==
    IF t \in seen THEN DIVERGES
    ELSE CASE reg[t].type = "T_ARRAY" ->
                type_alignment_rec(reg, reg[t].next, seen \cup {t})
           [] is_struct_or_union(reg, t) ->
                members_alignment(reg, unwrapped(reg, t), 1, 0, seen \cup {t})
           [] OTHER -> reg[t].size

type_alignment(reg, t) == type_alignment_rec(reg, t, {})

\* ------------------------------------------------------------------------
\* align_struct_members: walk the list, pad each field to its alignment,
\* round the total to the strongest alignment. Returns the list with the
\* offsets assigned and the size; size DIVERGES when type_alignment does.
\* ------------------------------------------------------------------------
RECURSIVE align_fields(_, _, _, _, _)
align_fields(reg, list, i, size, max_alignment) ==
    IF i > Len(list)
    THEN [member |-> list,
          size |-> IF size % max_alignment # 0
                   THEN size + (max_alignment - (size % max_alignment))
                   ELSE size]
    ELSE LET alignment == type_alignment(reg, list[i].type)
             padded == IF size % alignment # 0
                       THEN size + (alignment - (size % alignment))
                       ELSE size
         IN IF alignment = DIVERGES
            THEN [member |-> list, size |-> DIVERGES]
            ELSE align_fields(reg,
                              [list EXCEPT ![i].offset = padded],
                              i + 1,
                              padded + size_of(reg, list[i].type),
                              Max(alignment, max_alignment))

\* A layout that packs the fields without padding.
RECURSIVE pack_fields(_, _, _, _)
pack_fields(reg, list, i, size) ==
    IF i > Len(list) THEN [member |-> list, size |-> size]
    ELSE pack_fields(reg, [list EXCEPT ![i].offset = size], i + 1,
                     size + size_of(reg, list[i].type))

align_struct_members_packed(reg, list) ==
    IF align_fields(reg, list, 1, 0, 0).size = DIVERGES
    THEN align_fields(reg, list, 1, 0, 0)
    ELSE pack_fields(reg, list, 1, 0)

\* A layout that drops the rounding of the total size.
align_struct_members_unrounded(reg, list) ==
    LET laid == align_fields(reg, list, 1, 0, 0)
        last == laid.member[Len(list)]
    IN IF laid.size = DIVERGES THEN laid
       ELSE [laid EXCEPT !.size = last.offset + size_of(reg, last.type)]

\* The registry is passed with the new member already in the list, as in
\* type_add_member, where list->length++ precedes the call.
align_struct_members(reg, list) == align_fields(reg, list, 1, 0, 0)

\* ------------------------------------------------------------------------
\* type_init, type_tagged_copy: append a fresh object to the registry.
\* ------------------------------------------------------------------------
type_init_pointer(reg, nx) == Append(reg, Typetree("T_POINTER", 8, Q_NONE, nx))

type_init_array(reg, nx, count) ==
    Append(reg, Typetree("T_ARRAY", size_of(reg, nx) * count, Q_NONE, nx))

type_init(reg, tt) == Append(reg, Typetree(tt, 0, Q_NONE, NULL))

type_tagged_copy(reg, t, name) ==
    Append(reg, [Typetree(reg[t].type, 0, Q_NONE, t) EXCEPT !.tag_name = name])

\* ------------------------------------------------------------------------
\* type_add_member. The result is the registry after the call; a struct
\* whose layout recursion does not return gets size DIVERGES.
\* ------------------------------------------------------------------------
type_add_member(reg, t, member_name, member_type) ==
    IF is_function(reg, t) /\ member_name = "..."
    THEN [reg EXCEPT ![t].func_vararg = TRUE]
    ELSE
    LET decay == is_function(reg, t) /\ is_array(reg, member_type)
        reg1 == IF decay THEN type_init_pointer(reg, reg[member_type].next)
                ELSE reg
        mt == IF decay THEN Len(reg1) ELSE member_type
        list == Append(reg1[t].member,
                       [name |-> member_name, type |-> mt, offset |-> 0])
        reg2 == [reg1 EXCEPT ![t].member = list]
    IN  IF is_struct(reg, t)
        THEN LET laid == align_struct_members(reg2, list)
             IN [reg2 EXCEPT ![t].member = laid.member, ![t].size = laid.size]
        ELSE IF is_union(reg, t)
        THEN IF reg2[t].size < size_of(reg2, mt)
             THEN [reg2 EXCEPT ![t].size = size_of(reg2, mt)]
             ELSE reg2
        ELSE reg2

\* ------------------------------------------------------------------------
\* type_equal. The outcome is "true" or "false" when the call returns,
\* "abort" when the assertion on the member offsets fails, and "diverge"
\* when the recursion re-enters the pair of types it is already comparing.
\* ------------------------------------------------------------------------
RECURSIVE type_equal_rec(_, _, _, _)
RECURSIVE members_equal(_, _, _, _, _)

members_equal(reg, a, b, i, stack) ==
    IF i > nmembers(reg, a) THEN "true"
    ELSE LET ma == get_member(reg, a, i)
             mb == get_member(reg, b, i)
             r == type_equal_rec(reg, ma.type, mb.type, stack)
         IN IF r # "true" THEN r
            ELSE IF is_struct_or_union(reg, a) /\ ma.name # mb.name THEN "false"
            ELSE IF ma.offset # mb.offset THEN "abort"
            ELSE members_equal(reg, a, b, i + 1, stack)

type_equal_rec(reg, a0, b0, stack) ==
    IF a0 = NULL /\ b0 = NULL THEN "true"
    ELSE IF a0 = NULL \/ b0 = NULL THEN "false"
    ELSE IF is_tagged(reg, a0) /\ is_tagged(reg, b0)
    THEN (IF reg[a0].next = reg[b0].next THEN "true" ELSE "false")
    ELSE IF <<a0, b0>> \in stack THEN "diverge"
    ELSE
    LET a == unwrapped(reg, a0)
        b == unwrapped(reg, b0)
        inner == stack \cup {<<a0, b0>>}
    IN IF /\ reg[a].type = reg[b].type
          /\ reg[a].size = reg[b].size
          /\ nmembers(reg, a) = nmembers(reg, b)
          /\ is_unsigned(reg, a) = is_unsigned(reg, b)
       THEN LET r == type_equal_rec(reg, reg[a].next, reg[b].next, inner)
            IN IF r = "true" THEN members_equal(reg, a, b, 1, inner)
               ELSE r
       ELSE "false"

type_equal_left_tag(reg, a, b) ==
    IF a # NULL /\ b # NULL /\ is_tagged(reg, a)
    THEN (IF reg[a].next = reg[b].next THEN "true" ELSE "false")
    ELSE type_equal_rec(reg, a, b, {})

type_equal(reg, a, b) == type_equal_rec(reg, a, b, {})

is_compatible(reg, l, r) == type_equal(reg, l, r)

\* ------------------------------------------------------------------------
\* The declaration parser as far as it builds types (declaration.c).
\* ------------------------------------------------------------------------
TagNames == {"A"}
Kinds == {"T_STRUCT", "T_UNION"}
RefKinds == {"T_STRUCT"}
FieldTypes == {CHAR, INT, DOUBLE}
ArrayLength == 5

\* Member names: the i-th declarator of a member list is named after its
\* position, or "z".
PositionName == <<"a", "b", "c", "d", "e", "f", "g", "h">>
MemberNames(st, reg) ==
    IF st = << >> THEN {}
    ELSE {PositionName[Len(reg[st[Len(st)].obj].member) + 1]}

\* The declaration specifiers of a member: a basic type, a reference to a
\* tag, or the struct or union just defined in the specifier list.
Specifiers ==
    [spec : {"basic"}, type : FieldTypes, name : {""}]
    \cup [spec : {"ref"}, type : RefKinds, name : TagNames]
    \cup [spec : {"def"}, type : {NULL}, name : {""}]

\* The declarators that follow them: a name, a pointer, an array.
Declarators(s) ==
    IF s.spec = "basic"
    THEN (IF s.type = CHAR THEN {"id", "id[n]"} ELSE {"id"})
    ELSE {"id", "*id"}

Ids(reg) == 1..Len(reg)
\* The struct and union objects of the registry (tagged copies excluded).
Objects(reg) == {t \in Ids(reg) : is_struct_or_union(reg, t) /\ ~is_tagged(reg, t)}
\* The input so far, with n member declarators, is within the bound.
Within(reg, n) == Cardinality(Objects(reg)) + n <= MaxSize

\* sym_lookup(&ns_tag, name): the bound object, or NULL.
sym_lookup(ns, name) ==
    IF \E i \in 1..Len(ns) : ns[i].name = name
    THEN ns[CHOOSE i \in 1..Len(ns) : ns[i].name = name].obj
    ELSE NULL

TagObjects(ns) == {ns[i].obj : i \in 1..Len(ns)}
OpenObjects(st) == {st[i].obj : i \in 1..Len(st)}
TagNameOf(ns, obj) == ns[CHOOSE i \in 1..Len(ns) : ns[i].obj = obj].name

\* The objects a type contains by value.
RECURSIVE ByValue(_, _, _)
ByValue(reg, todo, done) ==
    IF todo = {} THEN done
    ELSE LET t == CHOOSE x \in todo : TRUE
             succ == CASE is_array(reg, t) -> {reg[t].next}
                       [] is_tagged(reg, t) -> {reg[t].next}
                       [] is_struct_or_union(reg, t) ->
                            {reg[t].member[i].type : i \in 1..Len(reg[t].member)}
                       [] OTHER -> {}
         IN ByValue(reg, (todo \cup succ) \ (done \cup {t}), done \cup {t})

\* C 6.2.5: a struct or union is incomplete until the closing brace of its
\* member list; a type containing it by value is incomplete with it.
Complete(reg, st, bad, t) ==
    /\ size_of(reg, t) # 0
    /\ ByValue(reg, {t}, {}) \cap (OpenObjects(st) \cup bad) = {}

\* No function call, no instruction and no parse() in progress.
FnIdle == fn_name = "" /\ fn_arg = NULL /\ fn_result = NULL
EncIdle == instr = << >> /\ elf = << >> /\ code = << >> /\ encoded = FALSE
PrsIdle ==
    /\ tokens = << >>
    /\ defs = << >>
    /\ fallback = << >>
    /\ last_def_returned = << >>
    /\ heap = << >>
    /\ retval = << >>
    /\ log = << >>
DclIdle == ns_ident = << >> /\ diagnostics = << >> /\ statements = << >>
LaterIdle == FnIdle /\ EncIdle /\ PrsIdle /\ DclIdle

Init ==
    /\ types = BasicRegistry
    /\ ns_tag = << >>
    /\ open = << >>
    /\ pending = NULL
    /\ unsound = {}
    /\ ndecls = 0
    /\ status = "run"
    /\ args = << >>
    /\ ret = VOID
    /\ params = << >>
    /\ res = << >>
    /\ next_integer_reg = 0
    /\ int_regs = << >>
    /\ pc = "idle"
    /\ LaterIdle

\* error(...); exit(1): the atexit handler cleanup() frees the registry.
Exit ==
    /\ status' = "exit"
    /\ types' = BasicRegistry
    /\ ns_tag' = << >>
    /\ open' = << >>
    /\ pending' = NULL
    /\ unsound' = {}
    /\ ndecls' = 0

\* The recursion of type_alignment exhausts the stack.
Crash ==
    /\ status' = "crash"
    /\ UNCHANGED <<types, ns_tag, open, pending, unsound, ndecls>>

\* struct_or_union_declaration with a tag, followed by '{'.
StructDef(kind, name) ==
    /\ status = "run"
    /\ pending = NULL
    /\ Len(open) < MaxOpen
    /\ LET sym == sym_lookup(ns_tag, name) IN
       IF sym = NULL
       THEN /\ types' = type_init(types, kind)
            /\ Within(types', ndecls)
            /\ ns_tag' = Append(ns_tag, [name |-> name, obj |-> Len(types) + 1])
            /\ open' = Append(open, [obj |-> Len(types) + 1, added |-> 0])
            /\ UNCHANGED <<pending, unsound, ndecls, status>>
       ELSE IF types[sym].type # kind \/ types[sym].size # 0
       THEN Exit
       ELSE /\ open' = Append(open, [obj |-> sym, added |-> 0])
            /\ UNCHANGED <<types, ns_tag, pending, unsound, ndecls, status>>

\* struct_or_union_declaration without a tag: an anonymous definition.
StructDefAnon(kind) ==
    /\ status = "run"
    /\ pending = NULL
    /\ Len(open) < MaxOpen
    /\ types' = type_init(types, kind)
    /\ Within(types', ndecls)
    /\ open' = Append(open, [obj |-> Len(types) + 1, added |-> 0])
    /\ UNCHANGED <<ns_tag, pending, unsound, ndecls, status>>

\* struct_or_union_declaration with a tag and no member list. The result is
\* the registry, the tag namespace and the type returned (NULL on error).
StructRef(reg, ns, kind, name) ==
    LET sym == sym_lookup(ns, name) IN
    IF sym = NULL
    THEN [reg |-> type_tagged_copy(type_init(reg, kind), Len(reg) + 1, name),
          ns |-> Append(ns, [name |-> name, obj |-> Len(reg) + 1]),
          type |-> Len(reg) + 2]
    ELSE IF reg[sym].type # kind
    THEN [reg |-> reg, ns |-> ns, type |-> NULL]
    ELSE [reg |-> type_tagged_copy(reg, sym, name), ns |-> ns,
          type |-> Len(reg) + 1]

\* declaration_specifiers of a member.
declaration_specifiers(reg, ns, s) ==
    CASE s.spec = "basic" -> [reg |-> reg, ns |-> ns, type |-> s.type]
      [] s.spec = "ref" -> StructRef(reg, ns, s.type, s.name)
      [] s.spec = "def" -> [reg |-> reg, ns |-> ns, type |-> pending]

\* declarator: pointer(), direct_declarator, direct_declarator_array. The
\* type is NULL when the array element type is incomplete.
declarator(reg, base, d) ==
    CASE d = "id" -> [reg |-> reg, type |-> base]
      [] d = "*id" -> [reg |-> type_init_pointer(reg, base), type |-> Len(reg) + 1]
      [] d = "id[n]" ->
            IF size_of(reg, base) = 0 THEN [reg |-> reg, type |-> NULL]
            ELSE [reg |-> type_init_array(reg, base, ArrayLength),
                  type |-> Len(reg) + 1]

\* member_declaration_list, one member declaration: specifiers, declarator,
\* the check for an incomplete field, type_add_member.
Member(s, d, name) ==
    /\ status = "run"
    /\ open # << >>
    /\ (s.spec = "def") = (pending # NULL)
    /\ LET top == open[Len(open)]
           t == top.obj
           sp == declaration_specifiers(types, ns_tag, s)
           dc == declarator(sp.reg, sp.type, d)
           reg == type_add_member(dc.reg, t, name, dc.type)
       IN
       IF sp.type = NULL THEN Exit
       ELSE IF dc.type = NULL THEN Exit
       ELSE IF size_of(dc.reg, dc.type) = 0 THEN Exit
       ELSE /\ Within(dc.reg, ndecls + 1)
            /\ IF reg[t].size = DIVERGES
               THEN Crash
               ELSE /\ types' = reg
                    /\ ns_tag' = sp.ns
                    /\ open' = [open EXCEPT ![Len(open)].added = top.added + 1]
                    /\ pending' = NULL
                    /\ ndecls' = ndecls + 1
                    /\ unsound' = IF Complete(dc.reg, open, unsound, dc.type)
                                  THEN unsound ELSE unsound \cup {t}
                    /\ UNCHANGED status

\* The closing brace: struct_or_union_declaration returns the anonymous
\* object itself, or a tagged copy of the tag's object. Inside a member list
\* the result is the specifier of the member being declared.
StructEnd ==
    /\ status = "run"
    /\ pending = NULL
    /\ open # << >>
    /\ LET top == open[Len(open)]
           tagged == top.obj \in TagObjects(ns_tag)
           result == IF tagged THEN Len(types) + 1 ELSE top.obj
       IN
       /\ top.added > 0
       /\ open' = SubSeq(open, 1, Len(open) - 1)
       /\ IF tagged
          THEN /\ types' = type_tagged_copy(types, top.obj, TagNameOf(ns_tag, top.obj))
          ELSE types' = types
       /\ pending' = IF Len(open) > 1 THEN result ELSE NULL
       /\ UNCHANGED <<ns_tag, unsound, ndecls, status>>
       /\ UNCHANGED <<abi, later>>

\* parameter_list: a function type returning base, one type_add_member per
\* parameter, "..." last for a variable argument list.
RECURSIVE add_parameters(_, _, _, _)
add_parameters(reg, func, plist, i) ==
    IF i > Len(plist) THEN reg
    ELSE LET dc == declarator(reg, plist[i].type, plist[i].declarator)
         IN add_parameters(type_add_member(dc.reg, func, plist[i].name, dc.type),
                           func, plist, i + 1)

parameter_list(reg, base, plist, vararg) ==
    LET func == Len(reg) + 1
        reg1 == [type_init(reg, "T_FUNCTION") EXCEPT ![func].next = base]
        reg2 == add_parameters(reg1, func, plist, 1)
    IN IF vararg THEN type_add_member(reg2, func, "...", NULL) ELSE reg2

\* A function declaration at file scope.
FuncDecl(base, plist, vararg) ==
    /\ status = "run"
    /\ open = << >>
    /\ Within(types, ndecls + 1 + Len(plist))
    /\ types' = parameter_list(types, base, plist, vararg)
    /\ ndecls' = ndecls + 1 + Len(plist)
    /\ UNCHANGED <<ns_tag, open, pending, unsound, status>>

\* The inputs of the layout specification.
StructDefinition ==
    /\ \E kind \in Kinds, name \in TagNames : StructDef(kind, name)
    /\ UNCHANGED <<abi, later>>
AnonDefinition ==
    /\ \E kind \in Kinds : StructDefAnon(kind)
    /\ UNCHANGED <<abi, later>>
MemberDeclaration ==
    /\ \E s \in Specifiers : \E d \in Declarators(s) :
          \E name \in MemberNames(open, types) : Member(s, d, name)
    /\ UNCHANGED <<abi, later>>

Next ==
    \/ StructDefinition
    \/ AnonDefinition
    \/ MemberDeclaration
    \/ StructEnd

Spec == Init /\ [][Next]_vars

\* The inputs of the type equality specification: two tags, basic types
\* that differ in signedness or qualifier only, a free name for the first
\* member, pointers to every specifier, function prototypes.
EqTagNames == {"A", "B"}
EqFieldTypes == {INT, UINT}
EqSpecifiers ==
    [spec : {"basic"}, type : EqFieldTypes, name : {""}]
    \cup [spec : {"ref"}, type : RefKinds, name : EqTagNames]
    \cup [spec : {"def"}, type : {NULL}, name : {""}]
EqDeclarators(s) ==
    IF s.spec = "basic" THEN {"id"}
    ELSE IF s.spec = "def" THEN {"*id"} ELSE {"id", "*id"}
EqMemberNames(st, reg) ==
    IF st = << >> THEN {}
    ELSE IF Len(reg[st[Len(st)].obj].member) = 0 THEN {"a", "z"}
    ELSE MemberNames(st, reg)

Param(n, t, d) == [name |-> n, type |-> t, declarator |-> d]
Prototypes ==
    { [ret |-> INT, params |-> <<Param("x", INT, "id")>>, vararg |-> FALSE],
      [ret |-> INT, params |-> <<Param("", INT, "id")>>, vararg |-> FALSE],
      [ret |-> INT, params |-> <<Param("x", INT, "id")>>, vararg |-> TRUE],
      [ret |-> INT, params |-> <<Param("x", UINT, "id")>>, vararg |-> FALSE],
      [ret |-> UINT, params |-> <<Param("x", INT, "id")>>, vararg |-> FALSE],
      [ret |-> INT, params |-> <<Param("x", INT, "id[n]")>>, vararg |-> FALSE],
      [ret |-> INT, params |-> << >>, vararg |-> FALSE] }

EqWithin == Cardinality(Objects(types)) + ndecls <= MaxEqSize

EqStructDefinition ==
    /\ \E kind \in Kinds, name \in EqTagNames : StructDef(kind, name)
    /\ EqWithin'
    /\ UNCHANGED <<abi, later>>
EqAnonDefinition == StructDefAnon("T_STRUCT") /\ EqWithin' /\ UNCHANGED <<abi, later>>
EqMemberDeclaration ==
    /\ \E s \in EqSpecifiers : \E d \in EqDeclarators(s) :
          \E name \in EqMemberNames(open, types) : Member(s, d, name)
    /\ EqWithin'
    /\ UNCHANGED <<abi, later>>
EqStructEnd == StructEnd
FunctionDeclaration ==
    /\ \E p \in Prototypes : FuncDecl(p.ret, p.params, p.vararg)
    /\ EqWithin'
    /\ UNCHANGED <<abi, later>>

NextEq ==
    \/ EqStructDefinition
    \/ EqAnonDefinition
    \/ EqMemberDeclaration
    \/ EqStructEnd
    \/ FunctionDeclaration

SpecEq == Init /\ [][NextEq]_vars

TypeOK ==
    /\ status \in {"run", "exit", "crash"}
    /\ Within(types, ndecls)

\* ------------------------------------------------------------------------
\* Properties of the struct and union layout.
\* ------------------------------------------------------------------------
Structs(reg) == {t \in Ids(reg) : is_struct(reg, t) /\ nmembers(reg, unwrapped(reg, t)) > 0}
Unions(reg) == {t \in Ids(reg) : is_union(reg, t) /\ nmembers(reg, unwrapped(reg, t)) > 0}

\* Every member type was complete when type_add_member was called with it.
BuiltFromComplete(t) == unwrapped(types, t) \notin unsound

MemberTypes(reg, t) ==
    [i \in 1..nmembers(reg, unwrapped(reg, t)) |-> get_member(reg, unwrapped(reg, t), i).type]
MemberOffsets(reg, t) ==
    [i \in 1..nmembers(reg, unwrapped(reg, t)) |-> get_member(reg, unwrapped(reg, t), i).offset]

SetMax(S) == CHOOSE x \in S : \A y \in S : y <= x

\* C1: for every struct type built by type_add_member calls with complete
\* member types, size_of(T) is a multiple of type_alignment(T) and every
\* member's offset is a multiple of type_alignment of the member's type.
C1_StructAligned ==
    \A t \in Structs(types) :
        BuiltFromComplete(t) =>
            /\ size_of(types, t) % type_alignment(types, t) = 0
            /\ \A i \in 1..nmembers(types, unwrapped(types, t)) :
                  LET m == get_member(types, unwrapped(types, t), i)
                  IN m.offset % type_alignment(types, m.type) = 0

\* A struct with padding before a member, padding at its end and a member
\* that is itself a struct, union or array.
C1_Witness ==
    \E t \in Structs(types) :
        /\ BuiltFromComplete(t)
        /\ ~is_tagged(types, t)
        /\ nmembers(types, t) = 3
        /\ \E i \in 1..3 : types[get_member(types, t, i).type].type
                               \in {"T_STRUCT", "T_UNION", "T_ARRAY"}
        /\ \E i \in 2..3 :
              get_member(types, t, i).offset >
                get_member(types, t, i - 1).offset
                    + size_of(types, get_member(types, t, i - 1).type)
        /\ types[t].size > get_member(types, t, 3).offset
                              + size_of(types, get_member(types, t, 3).type)

\* The smallest multiple of a that is not below lo.
LeastMultiple(a, lo) == CHOOSE k \in lo..(lo + a - 1) : k % a = 0

\* Declaration order with minimal padding, for the struct object t of reg.
MinimalLayout(reg, t) ==
    LET n == nmembers(reg, t)
        m(i) == get_member(reg, t, i)
        al(i) == type_alignment(reg, m(i).type)
        end(i) == m(i).offset + size_of(reg, m(i).type)
    IN /\ m(1).offset = 0
       /\ \A i \in 2..n : m(i).offset = LeastMultiple(al(i), end(i - 1))
       /\ reg[t].size = LeastMultiple(SetMax({al(i) : i \in 1..n}), end(n))

\* struct S { char a; int b; char c; }
IsStructS(reg, t) ==
    /\ is_struct(reg, t) /\ ~is_tagged(reg, t)
    /\ MemberTypes(reg, t) = <<CHAR, INT, CHAR>>

\* C2: whenever type_add_member has added a member to a struct, the members
\* lie in declaration order with minimal padding (first at 0, each next at
\* the least multiple of its alignment not below the end of the previous,
\* size the least multiple of the strongest alignment not below the end of
\* the last); struct S { char a; int b; char c; } has size 12, offsets
\* 0, 4, 8 and alignment 4.
C2_MinimalPadding ==
    [][\A t \in Ids(types') :
          /\ (/\ t \in Ids(types)
              /\ is_struct(types', t)
              /\ types'[t].member # types[t].member)
                => MinimalLayout(types', t)
          /\ IsStructS(types', t) =>
                /\ size_of(types', t) = 12
                /\ MemberOffsets(types', t) = <<0, 4, 8>>
                /\ type_alignment(types', t) = 4]_vars

C2_Witness ==
    \E t \in Ids(types) : IsStructS(types, t) /\ status = "run"

\* union U { int i; double d; char s[5]; }
IsUnionU(reg, t) ==
    /\ is_union(reg, t) /\ ~is_tagged(reg, t)
    /\ nmembers(reg, t) = 3
    /\ get_member(reg, t, 1).type = INT
    /\ get_member(reg, t, 2).type = DOUBLE
    /\ is_array(reg, get_member(reg, t, 3).type)
    /\ reg[get_member(reg, t, 3).type].next = CHAR
    /\ reg[get_member(reg, t, 3).type].size = 5

UnionLayout(reg, t) ==
    LET u == unwrapped(reg, t)
        n == nmembers(reg, u)
    IN /\ \A i \in 1..n : get_member(reg, u, i).offset = 0
       /\ size_of(reg, t) = SetMax({size_of(reg, get_member(reg, u, i).type) : i \in 1..n})
       /\ IsUnionU(reg, t) => size_of(reg, t) = 8 /\ type_alignment(reg, t) = 8

\* C3: for every union type built by any sequence of type_add_member calls,
\* every member's offset is 0 and size_of(T) is the maximum of size_of over
\* its members; union U { int i; double d; char s[5]; } has size 8, offsets
\* 0 and alignment 8.
C3_UnionLayout ==
    \A t \in Unions(types) : UnionLayout(types, t)

\* ------------------------------------------------------------------------
\* Properties of type_equal.
\* ------------------------------------------------------------------------
\* C4: type_equal(a, a) holds, type_equal(a, b) equals type_equal(b, a) and
\* is_compatible(a, a) holds, for all types a and b of the registry (basic,
\* pointer, array, function, struct, union and Tag types).
C4_ReflexiveSymmetric ==
    \A a \in Ids(types) :
        /\ type_equal(types, a, a) = "true"
        /\ is_compatible(types, a, a) = "true"
        /\ \A b \in a + 1 .. Len(types) :
              type_equal(types, a, b) = type_equal(types, b, a)

C4_Witness ==
    \E a, b \in Ids(types) :
        /\ is_tagged(types, a) /\ ~is_tagged(types, b)
        /\ is_struct_or_union(types, b) /\ nmembers(types, b) > 0
        /\ type_equal(types, a, b) = "true"
        /\ type_equal(types, b, a) = "true"
        /\ \E f \in Ids(types) : is_function(types, f)

\* C29: type_equal is transitive: for all types a, b and c, Tag types and
\* untagged struct or union types included, type_equal(a, b) and
\* type_equal(b, c) imply type_equal(a, c).
C29_Transitive ==
    \A a, b, c \in Ids(types) :
        (type_equal(types, a, b) = "true" /\ type_equal(types, b, c) = "true")
            => type_equal(types, a, c) = "true"

\* The relation type_equal is specified to decide.
Functions == {t \in Ids(types) : is_function(types, t)}
Tags == {t \in Ids(types) : is_tagged(types, t)}
\* Two Tag types of two struct definitions of the same members are each
\* equal to either definition and not equal to each other.
C29_TwoTags ==
    ~(\E a, c \in Tags : \E b \in Ids(types) :
        /\ ~is_tagged(types, b)
        /\ is_struct(types, b) /\ nmembers(types, b) > 0
        /\ types[a].next # types[c].next
        /\ type_equal(types, a, b) = "true"
        /\ type_equal(types, b, c) = "true"
        /\ type_equal(types, a, c) = "false")

\* Among the types that are not Tag types the relation is transitive.
C29_TransitiveUntagged ==
    \A a, b, c \in Ids(types) \ Tags :
        (type_equal(types, a, b) = "true" /\ type_equal(types, b, c) = "true")
            => type_equal(types, a, c) = "true"

MembersMatch(a, b, names, offsets) ==
    /\ nmembers(types, a) = nmembers(types, b)
    /\ \A i \in 1..nmembers(types, a) :
        LET ma == get_member(types, a, i)
            mb == get_member(types, b, i)
        IN /\ names => ma.name = mb.name
           /\ offsets => ma.offset = mb.offset
           /\ type_equal(types, ma.type, mb.type) = "true"
IgnoresQualifiers ==
    \A a, b \in Ids(types) :
        (types[a].qualifier # types[b].qualifier
         /\ types[a] = [types[b] EXCEPT !.qualifier = types[a].qualifier])
        => type_equal(types, a, b) = "true"
TagsRelation ==
    \A a, b \in Tags :
        type_equal(types, a, b) = "true" <=> types[a].next = types[b].next
AggregatesRelation ==
    \A a, b \in Objects(types) :
        types[a].type = types[b].type =>
            (type_equal(types, a, b) = "true" <=> MembersMatch(a, b, TRUE, TRUE))
FunctionsRelation ==
    \A a, b \in Functions :
        type_equal(types, a, b) = "true" <=>
            /\ type_equal(types, types[a].next, types[b].next) = "true"
            /\ MembersMatch(a, b, FALSE, FALSE)
Returns ==
    \A a, b \in Ids(types) : type_equal(types, a, b) \in {"true", "false"}

\* C5: type_equal(a, b) returns a result for every pair of types, ignores
\* qualifiers and parameter names, equates two Tag types exactly when they
\* wrap the same object, two struct or union types exactly when member
\* count, names, types and offsets match pairwise, and two function types
\* exactly when return type and parameter types match in order.
C5_TypeEqualRelation ==
    /\ Returns
    /\ IgnoresQualifiers
    /\ TagsRelation
    /\ AggregatesRelation
    /\ FunctionsRelation

\* The relation without the claim that every call returns.
C5_RelationWhereReturned ==
    /\ IgnoresQualifiers
    /\ TagsRelation
    /\ AggregatesRelation
    /\ FunctionsRelation
NeverAborts ==
    \A a, b \in Ids(types) : type_equal(types, a, b) # "abort"

\* ------------------------------------------------------------------------
\* The System V parameter classifier (abi.c).
\* ------------------------------------------------------------------------
MaxArgs == 3         \* arguments of a classified call

param_int_reg == <<"DI", "SI", "DX", "CX", "R8", "R9">>

\* enum param_class; a zeroed slot is PC_NO_CLASS.
PC_NO_CLASS == "NoClass"
PC_INTEGER == "Integer"
PC_SSE == "SSE"
PC_SSEUP == "SSEup"
PC_MEMORY == "Memory"
ParamClass == {PC_NO_CLASS, PC_INTEGER, PC_SSE, PC_SSEUP, PC_MEMORY}

\* Outcomes of classify that are not a class list: a failed assertion, a
\* store past the end of the list.
ASSERT_FAILED == <<"assertion failed">>
OUT_OF_BOUNDS == <<"store out of bounds">>

N_EIGHTBYTES(reg, t) == (size_of(reg, t) + 7) \div 8

has_unaligned_fields(reg, t) ==
    /\ is_struct_or_union(reg, t)
    /\ \E i \in 1..nmembers(reg, unwrapped(reg, t)) :
        LET member == get_member(reg, unwrapped(reg, t), i)
        IN member.offset % size_of(reg, member.type) # 0

\* Integer and SSE with the priority reversed.
combine_sse_first(a, b) ==
    IF a = b THEN a
    ELSE IF a = PC_NO_CLASS THEN b
    ELSE IF b = PC_NO_CLASS THEN a
    ELSE IF a = PC_MEMORY \/ b = PC_MEMORY THEN PC_MEMORY
    ELSE IF a = PC_SSE \/ b = PC_SSE THEN PC_SSE
    ELSE PC_INTEGER

combine(a, b) ==
    IF a = b THEN a
    ELSE IF a = PC_NO_CLASS THEN b
    ELSE IF b = PC_NO_CLASS THEN a
    ELSE IF a = PC_MEMORY \/ b = PC_MEMORY THEN PC_MEMORY
    ELSE IF a = PC_INTEGER \/ b = PC_INTEGER THEN PC_INTEGER
    ELSE PC_SSE

\* flatten(l, t, offset): the list l after the depth first traversal of t.
RECURSIVE flatten(_, _, _, _)
RECURSIVE flatten_members(_, _, _, _, _)
RECURSIVE flatten_elements(_, _, _, _, _)

flatten_members(reg, l, t, offset, i) ==
    IF i > nmembers(reg, t) \/ l \in {ASSERT_FAILED, OUT_OF_BOUNDS} THEN l
    ELSE LET member == get_member(reg, t, i)
         IN flatten_members(reg,
                            flatten(reg, l, member.type, member.offset + offset),
                            t, offset, i + 1)

flatten_elements(reg, l, t, offset, i) ==
    IF i >= reg[t].size \div size_of(reg, reg[t].next)
       \/ l \in {ASSERT_FAILED, OUT_OF_BOUNDS}
    THEN l
    ELSE flatten_elements(reg,
                          flatten(reg, l, reg[t].next,
                                  i * size_of(reg, reg[t].next) + offset),
                          t, offset, i + 1)

flatten(reg, l, t, offset) ==
    CASE reg[t].type \in {"T_REAL", "T_UNSIGNED", "T_SIGNED", "T_POINTER"} ->
            LET i == offset \div 8
            IN IF i + 1 \in DOMAIN l
               THEN [l EXCEPT ![i + 1] =
                        combine(l[i + 1],
                                IF reg[t].type = "T_REAL" THEN PC_SSE ELSE PC_INTEGER)]
               ELSE OUT_OF_BOUNDS
      [] reg[t].type \in {"T_STRUCT", "T_UNION"} ->
            flatten_members(reg, l, unwrapped(reg, t), offset, 1)
      [] reg[t].type = "T_ARRAY" ->
            flatten_elements(reg, l, t, offset, 0)
      [] OTHER -> ASSERT_FAILED

\* merge(l, n): TRUE when the list collapses to memory.
merge(l, n) ==
    LET has_sseup == \E i \in 1..n : l[i] = PC_SSEUP
    IN \/ \E i \in 1..n : l[i] = PC_MEMORY
       \/ n > 2 /\ (l[1] # PC_SSE \/ ~has_sseup)

\* classify that marks the first slot as memory and keeps the list.
classify_uncollapsed(reg, t) ==
    IF is_function(reg, t) \/ is_void(reg, t) THEN ASSERT_FAILED
    ELSE IF is_integer(reg, t) \/ is_pointer(reg, t) THEN <<PC_INTEGER>>
    ELSE IF N_EIGHTBYTES(reg, t) > 4 \/ has_unaligned_fields(reg, t) THEN <<PC_MEMORY>>
    ELSE IF is_struct_or_union(reg, t)
    THEN LET n == N_EIGHTBYTES(reg, t)
             eb == flatten(reg, [i \in 1..n |-> PC_NO_CLASS], t, 0)
         IN IF eb \in {ASSERT_FAILED, OUT_OF_BOUNDS} THEN eb
            ELSE IF merge(eb, n) THEN [eb EXCEPT ![1] = PC_MEMORY]
            ELSE eb
    ELSE <<PC_MEMORY>>

classify(reg, t) ==
    IF is_function(reg, t) \/ is_void(reg, t) THEN ASSERT_FAILED
    ELSE IF is_integer(reg, t) \/ is_pointer(reg, t) THEN <<PC_INTEGER>>
    ELSE IF N_EIGHTBYTES(reg, t) > 4 \/ has_unaligned_fields(reg, t) THEN <<PC_MEMORY>>
    ELSE IF is_struct_or_union(reg, t)
    THEN LET n == N_EIGHTBYTES(reg, t)
             eb == flatten(reg, [i \in 1..n |-> PC_NO_CLASS], t, 0)
         IN IF eb \in {ASSERT_FAILED, OUT_OF_BOUNDS} THEN eb
            ELSE IF merge(eb, n) THEN <<PC_MEMORY>>
            ELSE eb
    ELSE <<PC_MEMORY>>

\* classify_call, the placement of one argument: the classes it ends with
\* and the integer registers allocated after it.
place_strict(c, next, chunks) ==
    IF c[1] # PC_MEMORY
    THEN IF next + chunks < 6
         THEN [class |-> c, next |-> next + chunks]
         ELSE [class |-> [c EXCEPT ![1] = PC_MEMORY], next |-> next]
    ELSE [class |-> c, next |-> next]

place_counting_memory(c, next, chunks) ==
    IF next + chunks <= 6
    THEN [class |-> c, next |-> next + chunks]
    ELSE [class |-> [c EXCEPT ![1] = PC_MEMORY], next |-> next]

place(c, next, chunks) ==
    IF c[1] # PC_MEMORY
    THEN IF next + chunks <= 6
         THEN [class |-> c, next |-> next + chunks]
         ELSE [class |-> [c EXCEPT ![1] = PC_MEMORY], next |-> next]
    ELSE [class |-> c, next |-> next]

\* The registers behind the allocation counter: param_int_reg in order.
registers(from, to) == [j \in 1..(to - from) |-> param_int_reg[from + j]]

\* The types that are classified: the registry after these declarations.
RECURSIVE declare_members(_, _, _, _)
declare_members(reg, t, member_types, i) ==
    IF i > Len(member_types) THEN reg
    ELSE declare_members(type_add_member(reg, t, PositionName[i], member_types[i]),
                         t, member_types, i + 1)
struct_declaration(reg, kind, member_types) ==
    declare_members(type_init(reg, kind), Len(reg) + 1, member_types, 1)

R_float == Append(BasicRegistry, basic_type__float)
FLOAT == Len(R_float)
R_ptr == type_init_pointer(R_float, CHAR)
PTR == Len(R_ptr)                   \* char *
R_c3 == type_init_array(R_ptr, CHAR, 3)
CHAR3 == Len(R_c3)                  \* char [3]
R_c5 == type_init_array(R_c3, CHAR, ArrayLength)
CHAR5 == Len(R_c5)                  \* char [5]
R_dd == struct_declaration(R_c5, "T_STRUCT", <<DOUBLE, DOUBLE>>)
DD == Len(R_dd)                     \* struct { double x; double y; }
R_iii == struct_declaration(R_dd, "T_STRUCT", <<INT, INT, INT>>)
III == Len(R_iii)                   \* struct { int a; int b; int c; }
R_lll == struct_declaration(R_iii, "T_STRUCT", <<LONG, LONG, LONG>>)
LLL == Len(R_lll)                   \* struct { long a; long b; long c; }
R_ll == struct_declaration(R_lll, "T_STRUCT", <<LONG, LONG>>)
LL == Len(R_ll)                     \* struct { long a; long b; }
R_ca == struct_declaration(R_ll, "T_STRUCT", <<CHAR, CHAR3>>)
CA == Len(R_ca)                     \* struct { char a; char b[3]; }
R_u == struct_declaration(R_ca, "T_UNION", <<INT, DOUBLE, CHAR5>>)
U == Len(R_u)                       \* union { int i; double d; char s[5]; }
R_if == struct_declaration(R_u, "T_STRUCT", <<INT, FLOAT>>)
IF_ == Len(R_if)                    \* struct { int a; float b; }
R_nest == struct_declaration(R_if, "T_STRUCT", <<INT, III>>)
NEST == Len(R_nest)                 \* struct { int a; struct { int a, b, c; } b; }
R_big == struct_declaration(R_nest, "T_STRUCT", <<LLL, LL>>)
BIG == Len(R_big)                   \* 40 bytes
R_dl == struct_declaration(R_big, "T_STRUCT", <<DOUBLE, LONG>>)
DL == Len(R_dl)                     \* struct { double a; long b; }
R_tag == type_tagged_copy(R_dl, DD, "P")
TAG == Len(R_tag)                   \* struct P, a tagged copy of DD
ABIRegistry == R_tag

Aggregates == {DD, III, LLL, LL, CA, U, IF_, NEST, BIG, DL, TAG}
ArgTypes == {CHAR, INT, UINT, LONG, DOUBLE, CINT, FLOAT, PTR} \cup Aggregates
CallTypes == {INT, DOUBLE, LL, LLL}
RetTypes == {VOID, INT, LLL, DD}
Calls ==
    {<<t>> : t \in ArgTypes} \cup UNION {[1..n -> CallTypes] : n \in 0..MaxArgs}

InitABI ==
    /\ types = ABIRegistry
    /\ ns_tag = << >>
    /\ open = << >>
    /\ pending = NULL
    /\ unsound = {}
    /\ ndecls = 0
    /\ status = "run"
    /\ args \in Calls
    /\ ret \in RetTypes
    /\ params = << >>
    /\ res = << >>
    /\ next_integer_reg = 0
    /\ int_regs = << >>
    /\ pc = "classify"
    /\ LaterIdle

\* params[i] = classify(args[i])
ClassifyArgument ==
    /\ pc = "classify"
    /\ Len(params) < Len(args)
    /\ LET c == classify(types, args[Len(params) + 1])
       IN /\ params' = Append(params, c)
          /\ pc' = IF c \in {ASSERT_FAILED, OUT_OF_BOUNDS} THEN "abort" ELSE pc
    /\ UNCHANGED <<parser, later, args, ret, res, next_integer_reg, int_regs>>

\* *res = classify(ret), and the hidden first argument of a memory return.
ClassifyReturn ==
    /\ pc = "classify"
    /\ Len(params) = Len(args)
    /\ LET c == IF ~is_void(types, ret) THEN classify(types, ret)
                ELSE <<PC_NO_CLASS>>
       IN /\ res' = c
          /\ next_integer_reg' =
                IF ~is_void(types, ret) /\ c[1] = PC_MEMORY THEN 1 ELSE 0
          /\ pc' = IF c \in {ASSERT_FAILED, OUT_OF_BOUNDS} THEN "abort" ELSE "place"
    /\ UNCHANGED <<parser, later, args, ret, params, int_regs>>

\* One round of the placement loop.
PlaceArgument ==
    /\ pc = "place"
    /\ Len(int_regs) < Len(args)
    /\ LET i == Len(int_regs) + 1
           p == place(params[i], next_integer_reg, N_EIGHTBYTES(types, args[i]))
       IN /\ params' = [params EXCEPT ![i] = p.class]
          /\ next_integer_reg' = p.next
          /\ int_regs' = Append(int_regs, registers(next_integer_reg, p.next))
    /\ UNCHANGED <<parser, later, args, ret, res, pc>>

\* return params
ReturnParams ==
    /\ pc = "place"
    /\ Len(int_regs) = Len(args)
    /\ pc' = "done"
    /\ UNCHANGED <<parser, later, args, ret, params, res, next_integer_reg, int_regs>>

NextABI ==
    \/ ClassifyArgument
    \/ ClassifyReturn
    \/ PlaceArgument
    \/ ReturnParams

SpecABI == InitABI /\ [][NextABI]_vars

ABITypeOK ==
    /\ pc \in {"classify", "place", "done"}
    /\ Len(params) <= Len(args)
    /\ \A k \in 1..Len(params) : \A j \in 1..Len(params[k]) : params[k][j] \in ParamClass

\* ------------------------------------------------------------------------
\* Properties of the classifier.
\* ------------------------------------------------------------------------
\* The arguments whose entry of params is still what classify returned.
Unplaced == (Len(int_regs) + 1)..Len(params)
ReturnClassified == pc \in {"place", "done"} /\ ~is_void(types, ret)

SlotsOK(c, t) ==
    IF c[1] = PC_MEMORY THEN Len(c) = 1
    ELSE /\ 8 * Len(c) >= size_of(types, t)
         /\ 8 * (Len(c) - 1) < size_of(types, t)

\* C6: for every non-void, non-function type T, classify(T) returns the
\* single slot [Memory] or, when its first class is not Memory, exactly
\* ceil(size_of(T)/8) slots.
C6_SlotCount ==
    /\ \A k \in Unplaced : SlotsOK(params[k], args[k])
    /\ ReturnClassified => SlotsOK(res, ret)

C6_Witness ==
    /\ pc = "place"
    /\ Len(int_regs) = 0
    /\ \E k, j \in 1..Len(params) :
        /\ args[k] = LL /\ Len(params[k]) = 2 /\ params[k][1] # PC_MEMORY
        /\ args[j] = LLL /\ params[j] = <<PC_MEMORY>>

\* The scalar fields of a type, each with the offset at which it starts.
RECURSIVE Scalars(_, _)
Scalars(t, offset) ==
    IF is_struct_or_union(types, t)
    THEN UNION {Scalars(get_member(types, unwrapped(types, t), i).type,
                        offset + get_member(types, unwrapped(types, t), i).offset)
                : i \in 1..nmembers(types, unwrapped(types, t))}
    ELSE IF is_array(types, t)
    THEN UNION {Scalars(types[t].next, offset + i * size_of(types, types[t].next))
                : i \in 0..(types[t].size \div size_of(types, types[t].next) - 1)}
    ELSE {[at |-> offset,
           class |-> IF types[t].type = "T_REAL" THEN PC_SSE ELSE PC_INTEGER]}

SlotClass(S) ==
    IF PC_MEMORY \in S THEN PC_MEMORY
    ELSE IF PC_INTEGER \in S THEN PC_INTEGER
    ELSE IF PC_SSE \in S THEN PC_SSE
    ELSE PC_NO_CLASS

Eightbytes(t) ==
    CHOOSE n \in 0..size_of(types, t) :
        8 * n >= size_of(types, t) /\ 8 * (n - 1) < size_of(types, t)

Combined(t) ==
    [j \in 1..Eightbytes(t) |->
        SlotClass({f.class : f \in {g \in Scalars(t, 0) : g.at \div 8 = j - 1}})]

Collapsed(t) ==
    LET c == Combined(t)
    IN IF \/ \E j \in 1..Len(c) : c[j] = PC_MEMORY
          \/ /\ size_of(types, t) > 16
             /\ (c[1] # PC_SSE \/ ~\E j \in 1..Len(c) : c[j] = PC_SSEUP)
       THEN <<PC_MEMORY>>
       ELSE c

\* The aggregates that classify hands to flatten.
Flattened(t) ==
    /\ is_struct_or_union(types, t)
    /\ ~(N_EIGHTBYTES(types, t) > 4 \/ has_unaligned_fields(types, t))

Example(c, t) ==
    /\ t = DD => c = <<PC_SSE, PC_SSE>>
    /\ t = III => c = <<PC_INTEGER, PC_INTEGER>>
    /\ t = LLL => c = <<PC_MEMORY>>

\* C7: for an aggregate that is flattened, classify combines the classes of
\* the scalar fields that start in the same eightbyte (Memory wins, else
\* Integer beats SSE, NoClass is absorbed) and collapses the list to
\* [Memory] if a slot is Memory, or if the type is larger than two
\* eightbytes and the first slot is not SSE or no slot is SSEup; the three
\* example structs give [SSE, SSE], [Integer, Integer] and [Memory].
C7_CombineAndMerge ==
    /\ \A k \in Unplaced :
        /\ Flattened(args[k]) => params[k] = Collapsed(args[k])
        /\ Example(params[k], args[k])
    /\ ReturnClassified =>
        /\ Flattened(ret) => res = Collapsed(ret)
        /\ Example(res, ret)

C7_Witness ==
    /\ pc = "place"
    /\ Len(int_regs) = 0
    /\ ret = DD /\ res = <<PC_SSE, PC_SSE>>
    /\ \E k \in 1..Len(params) : args[k] = LLL /\ params[k] = <<PC_MEMORY>>

C7_WitnessMixed ==
    /\ pc = "place"
    /\ args = <<U>>
    /\ params = << <<PC_INTEGER>> >>

RECURSIVE FieldsAligned(_)
FieldsAligned(t) ==
    \A i \in 1..nmembers(types, unwrapped(types, t)) :
        LET member == get_member(types, unwrapped(types, t), i)
        IN /\ member.offset % type_alignment(types, member.type) = 0
           /\ is_struct_or_union(types, member.type) => FieldsAligned(member.type)

\* C8: every struct or union of at most 32 bytes whose fields all lie at
\* offsets that are multiples of their own alignment is flattened into
\* per-eightbyte classes; classify gives it [Memory] before flattening only
\* when it is larger than 32 bytes or has a field at a misaligned offset.
C8_MemoryBeforeFlatten ==
    \A k \in Unplaced :
        (/\ is_struct_or_union(types, args[k])
         /\ size_of(types, args[k]) <= 32
         /\ FieldsAligned(args[k]))
        => params[k] = Collapsed(args[k])

\* The same with "misaligned" read as classify computes it: an offset that
\* is not a multiple of the field's size, fields of the top level only.
C8_AsComputed ==
    \A k \in Unplaced :
        is_struct_or_union(types, args[k]) =>
            IF \/ size_of(types, args[k]) > 32
               \/ \E i \in 1..nmembers(types, unwrapped(types, args[k])) :
                    LET member == get_member(types, unwrapped(types, args[k]), i)
                    IN member.offset % size_of(types, member.type) # 0
            THEN params[k] = <<PC_MEMORY>>
            ELSE params[k] = Collapsed(args[k])

\* The placement the arguments are specified to get: the integer registers
\* allocated after the first k arguments, from the classes classify gave.
Chunks(k) == Eightbytes(args[k])
RegisterClass(k) == classify(types, args[k])[1] # PC_MEMORY
RECURSIVE Allocated(_)
Fits(k) == Allocated(k - 1) + Chunks(k) <= 6
Allocated(k) ==
    IF k = 0 THEN (IF ReturnClassified /\ res[1] = PC_MEMORY THEN 1 ELSE 0)
    ELSE IF RegisterClass(k) /\ Fits(k) THEN Allocated(k - 1) + Chunks(k)
    ELSE Allocated(k - 1)

\* C9: classify_call walks the arguments left to right and never splits
\* one: an argument whose class is not Memory keeps its classes exactly
\* when the integer registers already allocated (the one reserved for the
\* hidden pointer of a Memory return included) plus its eightbyte count do
\* not exceed 6, and is otherwise downgraded to Memory; the number of
\* integer registers allocated never exceeds 6.
C9_NeverSplit ==
    pc \in {"place", "done"} =>
        /\ next_integer_reg <= 6
        /\ next_integer_reg = Allocated(Len(int_regs))
        /\ \A k \in 1..Len(int_regs) :
            /\ Len(int_regs[k]) \in {0, Chunks(k)}
            /\ RegisterClass(k) =>
                /\ Fits(k) <=> params[k] = classify(types, args[k])
                /\ Fits(k) <=> Len(int_regs[k]) = Chunks(k)
                /\ ~Fits(k) => params[k][1] = PC_MEMORY
            /\ ~RegisterClass(k) =>
                params[k] = <<PC_MEMORY>> /\ int_regs[k] = << >>

C9_Witness ==
    /\ pc = "done"
    /\ res = <<PC_MEMORY>>
    /\ next_integer_reg = 5
    /\ \E k \in 1..Len(args) :
        /\ args[k] = LL
        /\ params[k] = <<PC_MEMORY, PC_INTEGER>>
        /\ int_regs[k] = << >>
        /\ \A j \in 1..(k - 1) : args[j] = LL /\ Len(int_regs[j]) = 2

IsExampleCall ==
    /\ pc = "done"
    /\ is_void(types, ret)
    /\ args = <<INT, LLL, INT>>

\* C10 as claimed: for void f(int, struct {long a; long b; long c;}, int)
\* the middle argument is passed in memory and the two int arguments
\* consume the integer registers DI and DX.
C10_RegistersDIandDX ==
    IsExampleCall =>
        /\ params[2] = <<PC_MEMORY>> /\ int_regs[2] = << >>
        /\ int_regs[1] = <<"DI">>
        /\ int_regs[3] = <<"DX">>

\* C10 as amended: for void f(int, struct {long a; long b; long c;}, int)
\* the middle argument is passed in memory and the two int arguments
\* consume the integer registers DI and SI.
C10_RegistersDIandSI ==
    IsExampleCall =>
        /\ params = << <<PC_INTEGER>>, <<PC_MEMORY>>, <<PC_INTEGER>> >>
        /\ int_regs = << <<"DI">>, << >>, <<"SI">> >>
        /\ next_integer_reg = 2

C10_Witness ==
    /\ IsExampleCall
    /\ params[2] = <<PC_MEMORY>>
    /\ next_integer_reg = 2

\* ------------------------------------------------------------------------
\* sym_alignment (abi.c) and promote_integer (type.c), applied to the types
\* of a registry that holds one more array.
\* ------------------------------------------------------------------------
MaxCount == 4        \* elements of the array

basic_type__short == Typetree("T_SIGNED", 2, Q_NONE, NULL)
basic_type__unsigned_char == Typetree("T_UNSIGNED", 1, Q_NONE, NULL)
basic_type__unsigned_short == Typetree("T_UNSIGNED", 2, Q_NONE, NULL)
basic_type__unsigned_long == Typetree("T_UNSIGNED", 8, Q_NONE, NULL)
const_short == Typetree("T_SIGNED", 2, Q_CONST, NULL)

R_short == Append(ABIRegistry, basic_type__short)
SHORT == Len(R_short)
R_uchar == Append(R_short, basic_type__unsigned_char)
UCHAR == Len(R_uchar)
R_ushort == Append(R_uchar, basic_type__unsigned_short)
USHORT == Len(R_ushort)
R_ulong == Append(R_ushort, basic_type__unsigned_long)
ULONG == Len(R_ulong)
R_cshort == Append(R_ulong, const_short)
CSHORT == Len(R_cshort)
FnRegistry == R_cshort

ElementTypes == {CHAR, SHORT, INT, LONG, DOUBLE, DD, III, CHAR5}
IntegerTypes == {t \in Ids(FnRegistry) : is_integer(FnRegistry, t)}
SymbolTypes(reg) == {t \in Ids(reg) : ~is_void(reg, t) /\ ~is_function(reg, t)}

\* sym_alignment(sym), of a symbol of type t.
sym_alignment(reg, t) ==
    LET align == type_alignment(reg, t)
    IN IF is_array(reg, t) /\ align < 16 THEN 16 ELSE align

\* promote_integer(type); NULL stands for the failed assertion.
promote_integer_to_int(reg, type) ==
    IF ~is_integer(reg, type) THEN NULL
    ELSE IF reg[type].size < 4 THEN INT
    ELSE type

promote_integer(reg, type) ==
    IF ~is_integer(reg, type) THEN NULL
    ELSE IF reg[type].size < 4
    THEN (IF is_unsigned(reg, type) THEN UINT ELSE INT)
    ELSE type

\* remove_qualifiers(type): the type itself, or an unqualified copy of it
\* taken from calloc_type. NULL stands for the failed assertion.
remove_qualifiers(reg, type) ==
    IF reg[type].qualifier # Q_NONE
    THEN IF nmembers(reg, type) # 0 THEN [reg |-> reg, type |-> NULL]
         ELSE [reg |-> Append(reg, [reg[type] EXCEPT !.qualifier = Q_NONE]),
               type |-> Len(reg) + 1]
    ELSE [reg |-> reg, type |-> type]

usual_arithmetic_conversion_second(reg, t1, t2) ==
    IF ~is_integer(reg, t1) \/ ~is_integer(reg, t2)
    THEN [reg |-> reg, type |-> NULL]
    ELSE LET p1 == promote_integer(reg, t1)
             p2 == promote_integer(reg, t2)
         IN IF reg[p1].size > reg[p2].size THEN remove_qualifiers(reg, p1)
            ELSE remove_qualifiers(reg, p2)

usual_arithmetic_conversion(reg, t1, t2) ==
    IF ~is_integer(reg, t1) \/ ~is_integer(reg, t2)
    THEN [reg |-> reg, type |-> NULL]
    ELSE LET p1 == promote_integer(reg, t1)
             p2 == promote_integer(reg, t2)
         IN IF reg[p1].size > reg[p2].size THEN remove_qualifiers(reg, p1)
            ELSE IF reg[p2].size > reg[p1].size THEN remove_qualifiers(reg, p2)
            ELSE IF is_unsigned(reg, p1) THEN remove_qualifiers(reg, p1)
            ELSE remove_qualifiers(reg, p2)

InitFn ==
    /\ \E element \in ElementTypes, count \in 1..MaxCount :
        types = type_init_array(FnRegistry, element, count)
    /\ ns_tag = << >>
    /\ open = << >>
    /\ pending = NULL
    /\ unsound = {}
    /\ ndecls = 0
    /\ status = "run"
    /\ args = << >>
    /\ ret = VOID
    /\ params = << >>
    /\ res = << >>
    /\ next_integer_reg = 0
    /\ int_regs = << >>
    /\ pc = "idle"
    /\ \/ fn_name = "sym_alignment" /\ fn_arg \in SymbolTypes(types)
       \/ fn_name = "promote_integer" /\ fn_arg \in IntegerTypes
       \/ /\ fn_name = "usual_arithmetic_conversion"
          /\ fn_arg \in IntegerTypes \X IntegerTypes
    /\ fn_result = NULL
    /\ EncIdle
    /\ PrsIdle
    /\ DclIdle

SymAlignment ==
    /\ fn_name = "sym_alignment"
    /\ fn_result = NULL
    /\ fn_result' = sym_alignment(types, fn_arg)
    /\ UNCHANGED <<parser, abi, enc, prs, dcl, fn_name, fn_arg>>

PromoteInteger ==
    /\ fn_name = "promote_integer"
    /\ fn_result = NULL
    /\ fn_result' = promote_integer(types, fn_arg)
    /\ UNCHANGED <<parser, abi, enc, prs, dcl, fn_name, fn_arg>>

UsualArithmeticConversion ==
    /\ fn_name = "usual_arithmetic_conversion"
    /\ fn_result = NULL
    /\ \E out \in {usual_arithmetic_conversion(types, fn_arg[1], fn_arg[2])} :
        /\ types' = out.reg
        /\ fn_result' = out.type
    /\ UNCHANGED <<ns_tag, open, pending, unsound, ndecls, status>>
    /\ UNCHANGED <<abi, enc, prs, dcl, fn_name, fn_arg>>

NextFn ==
    \/ SymAlignment
    \/ PromoteInteger
    \/ UsualArithmeticConversion

SpecFn == InitFn /\ [][NextFn]_vars

Returned(name) == fn_name = name /\ fn_result # NULL

\* C11: sym_alignment returns 16 for a symbol of array type whose size is at
\* least 16 bytes, and type_alignment of the symbol's type for every other
\* symbol, arrays smaller than 16 bytes included.
C11_ArrayAlignment ==
    Returned("sym_alignment") =>
        fn_result = IF is_array(types, fn_arg) /\ size_of(types, fn_arg) >= 16
                    THEN 16
                    ELSE type_alignment(types, fn_arg)

\* What sym_alignment computes: 16 for every array, type_alignment else.
C11_EveryArray ==
    Returned("sym_alignment") =>
        fn_result = IF is_array(types, fn_arg) THEN 16
                    ELSE type_alignment(types, fn_arg)

C21_UnsignedShortToInt ==
    (Returned("promote_integer") /\ types[fn_arg] = basic_type__unsigned_short)
        => types[fn_result] = basic_type__int

\* The promoted operands of the conversion.
Promoted(i) == promote_integer(types, fn_arg[i])
Wider ==
    IF types[Promoted(1)].size > types[Promoted(2)].size THEN Promoted(1)
    ELSE Promoted(2)
SameSizes == types[Promoted(1)].size = types[Promoted(2)].size

\* C22: usual_arithmetic_conversion(t1, t2) promotes both operands with
\* promote_integer and returns the promoted type of larger size, without
\* its qualifiers; when the promoted sizes are equal it returns an unsigned
\* type if either promoted operand is unsigned and a signed type otherwise.
C22_UsualArithmeticConversion ==
    Returned("usual_arithmetic_conversion") =>
        /\ types[fn_result].size = types[Wider].size
        /\ types[fn_result].qualifier = Q_NONE
        /\ ~SameSizes => types[fn_result].type = types[Wider].type
        /\ SameSizes =>
              types[fn_result].type =
                  IF is_unsigned(types, Promoted(1)) \/ is_unsigned(types, Promoted(2))
                  THEN "T_UNSIGNED" ELSE "T_SIGNED"

\* A tie that the second operand alone would decide wrongly, and a result
\* that needed an unqualified copy.
C22_Witness ==
    /\ Returned("usual_arithmetic_conversion")
    /\ fn_arg = <<UINT, CINT>>
    /\ fn_result = UINT

C22_WitnessCopy ==
    /\ Returned("usual_arithmetic_conversion")
    /\ fn_arg = <<SHORT, CINT>>
    /\ fn_result = Len(types)
    /\ types[fn_result] = basic_type__int

\* ------------------------------------------------------------------------
\* The x86-64 instruction encoder (instructions.c).
\* ------------------------------------------------------------------------
\* enum reg: (r - 1) % 8 is the 3-bit encoding, r > DI is R8..R15 and above.
AX == 1
CX == 2
SP == 5
BP == 6
DI == 8
R8 == 9
R13 == 14
R15 == 16
XMM0 == 17
XMM7 == 24

REX == 64
PREFIX_SSE == 15
TEST_AE == 3
TEST_Z == 4
TEST_A == 7
TEST_GE == 13
TEST_G == 15

\* Bitwise or of two bytes.
RECURSIVE BitOr(_, _)
BitOr(a, b) ==
    IF a = 0 THEN b
    ELSE IF b = 0 THEN a
    ELSE 2 * BitOr(a \div 2, b \div 2) + (IF a % 2 = 1 \/ b % 2 = 1 THEN 1 ELSE 0)
Or3(a, b, c) == BitOr(BitOr(a, b), c)
Or4(a, b, c, d) == BitOr(BitOr(a, b), BitOr(c, d))

\* memcpy of the n low bytes of a two's complement integer, little-endian.
LittleEndian(v, n) == [i \in 1..n |-> (v \div (256 ^ (i - 1))) % 256]

\* The macros on operands.
reg(arg) == (arg.r - 1) % 8
is_64_bit(arg) == arg.w \div 8
is_32_bit(arg) == (arg.w \div 4) % 2
is_16_bit(arg) == (arg.w \div 2) % 2
is_64_bit_reg(r) == IF r > DI THEN 1 ELSE 0
W(arg) == is_64_bit(arg) * 8
R(arg) == is_64_bit_reg(arg.r) * 4
B(arg) == is_64_bit_reg(arg.r)
w(arg) == IF arg.w % 2 = 1 THEN 0 ELSE 1
in_byte_range(v) == v >= -128 /\ v <= 127

\* struct immediate: the union d as its eight bytes of storage.
IMM_INT == "IMM_INT"
IMM_ADDR == "IMM_ADDR"
d_byte(imm) == imm.d[1]
d_word(imm) == SubSeq(imm.d, 1, 2)
d_dword(imm) == SubSeq(imm.d, 1, 4)
d_qword(imm) == imm.d
\* A little-endian integer of n bytes lies in the range of a signed byte
\* (of a signed 32-bit integer) exactly when it is the sign extension of one.
SignExtends(bytes, k) ==
    \/ /\ bytes[k] < 128
       /\ \A i \in (k + 1)..Len(bytes) : bytes[i] = 0
    \/ /\ bytes[k] >= 128
       /\ \A i \in (k + 1)..Len(bytes) : bytes[i] = 255

is_byte_imm(imm) ==
    /\ imm.type = IMM_INT
    /\ \/ imm.w = 1
       \/ imm.w = 2 /\ SignExtends(d_word(imm), 1)
       \/ imm.w = 4 /\ SignExtends(d_dword(imm), 1)
       \/ SignExtends(d_qword(imm), 1)

is_32bit_imm(imm) ==
    /\ imm.type = IMM_INT
    /\ (imm.w < 8 \/ SignExtends(d_qword(imm), 4))

\* struct code, with the effects of the call on the ELF collaborator: the
\* relocations and the pending label fixups it was asked to record.
Code(val) == [val |-> val, relocs |-> << >>, fixups |-> << >>, abort |-> FALSE]
ABORT == [val |-> << >>, relocs |-> << >>, fixups |-> << >>, abort |-> TRUE]
Emit(c, bytes) == [c EXCEPT !.val = c.val \o bytes]

\* elf_add_reloc_text(sym, kind, offset_in_instr, addend)
elf_add_reloc_text(c, text, sym, kind, offset_in_instr, addend) ==
    [c EXCEPT !.relocs = Append(c.relocs,
        [sym |-> sym, kind |-> kind,
         offset |-> text.offset + offset_in_instr, addend |-> addend])]

\* elf_text_displacement(label, instr_offset): the delta to a resolved
\* label, or 0 and a pending fixup.
Unresolved == -1
elf_text_displacement(text, label, instr_offset) ==
    IF text.label # Unresolved
    THEN text.label - (text.offset + instr_offset)
    ELSE 0
elf_pending(c, text, label, instr_offset) ==
    IF text.label # Unresolved THEN c
    ELSE [c EXCEPT !.fixups = Append(c.fixups,
            [sym |-> label, offset |-> text.offset + instr_offset])]

\* A code of no bytes.
nop_empty == Code(<< >>)

nop == Code(<<144>>)

requires_prefix(addr) ==
    IF addr.sym # "" THEN 0
    ELSE IF is_64_bit_reg(addr.base) = 1 \/ is_64_bit_reg(addr.offset) = 1 THEN 1
    ELSE 0

encode_sib_addr(c, text, rg, addr) ==
    IF addr.sym # ""
    THEN LET c1 == Emit(c, <<BitOr((rg % 8) * 8, 5)>>)
             c2 == elf_add_reloc_text(c1, text, addr.sym, "R_X86_64_PC32",
                                      Len(c1.val), addr.disp)
         IN Emit(c2, <<0, 0, 0, 0>>)
    ELSE LET modrm == BitOr((rg % 8) * 8, (addr.base - 1) % 8)
         IN IF addr.disp # 0
            THEN IF in_byte_range(addr.disp)
                 THEN Emit(c, <<BitOr(modrm, 64), addr.disp % 256>>)
                 ELSE Emit(c, <<BitOr(modrm, 128)>> \o LittleEndian(addr.disp, 4))
            ELSE Emit(c, <<modrm>>)

ModRM(rg, rm) == Or3(192, rg * 8, rm)

mov_imm(text, a, b) ==
    LET prefix == IF is_64_bit(b) = 1 \/ is_64_bit_reg(b.r) = 1
                  THEN <<Or3(REX, W(b), B(b))>> ELSE << >>
        head == prefix \o <<Or3(184, w(b) * 8, reg(b))>>
    IN IF a.w = 1
       THEN (IF a.type # IMM_INT THEN ABORT ELSE Code(head \o <<d_byte(a)>>))
       ELSE IF a.w = 2
       THEN (IF a.type # IMM_INT THEN ABORT ELSE Code(head \o d_word(a)))
       ELSE IF is_32bit_imm(a) \/ a.type = IMM_ADDR
       THEN LET special == IF is_64_bit(b) = 1
                           THEN <<head[1], 199, BitOr(192, reg(b))>>
                           ELSE head
            IN IF a.type = IMM_INT
               THEN Code(special \o d_dword(a))
               ELSE Emit(elf_add_reloc_text(Code(special), text, a.addr.sym,
                             "R_X86_64_32S", Len(special), a.addr.disp),
                         <<0, 0, 0, 0>>)
       ELSE IF a.w # 8 \/ a.type # IMM_INT THEN ABORT
       ELSE Code(head \o d_qword(a))

mov(text, optype, a, b) ==
    CASE optype = "OPT_IMM_REG" -> mov_imm(text, a, b)
      [] optype = "OPT_REG_REG" ->
            IF a.w # b.w THEN ABORT
            ELSE Code(<<Or4(REX, W(a), R(a), B(b)), 136 + is_64_bit(a),
                        ModRM(reg(a), reg(b))>>)
      [] optype = "OPT_REG_MEM" ->
            LET prefix ==
                    IF is_16_bit(a) = 1 THEN <<102>>
                    ELSE IF is_64_bit(a) = 1 \/ is_64_bit_reg(a.r) = 1
                            \/ requires_prefix(b.addr) = 1
                    THEN <<Or3(REX, W(a), is_64_bit_reg(b.addr.base))>>
                    ELSE << >>
            IN encode_sib_addr(Code(prefix \o <<136 + w(a)>>), text, reg(a), b.addr)
      [] optype = "OPT_MEM_REG" ->
            LET prefix ==
                    IF is_64_bit(b) = 1 \/ is_64_bit_reg(b.r) = 1
                    THEN <<Or3(REX, W(b), R(b))>> ELSE << >>
            IN encode_sib_addr(Code(prefix \o <<138 + w(b)>>), text, reg(b), a.addr)
      [] OTHER -> nop

movsx(text, optype, a, b) ==
    IF optype # "OPT_MEM_REG" THEN ABORT
    ELSE LET prefix ==
                 IF is_64_bit(b) = 1 \/ is_64_bit_reg(b.r) = 1
                    \/ is_64_bit_reg(a.addr.base) = 1
                 THEN <<Or4(REX, W(b), R(b), is_64_bit_reg(a.addr.base))>>
                 ELSE << >>
             opc == IF is_32_bit(a) = 1 /\ is_64_bit(b) = 1
                    THEN <<99>> ELSE <<15, BitOr(190, w(a))>>
         IN encode_sib_addr(Code(prefix \o opc), text, reg(b), a.addr)

movzx(text, optype, a, b) ==
    IF optype \notin {"OPT_REG_REG", "OPT_MEM_REG"} THEN ABORT
    ELSE LET prefix == IF is_64_bit(b) = 1
                       THEN <<Or3(REX, W(b), R(b))>> ELSE << >>
         IN IF optype = "OPT_REG_REG"
            THEN Code(prefix \o <<15, BitOr(182, w(a)), ModRM(reg(b), reg(a))>>)
            ELSE encode_sib_addr(Code(prefix \o <<15, BitOr(182, w(a))>>),
                                 text, reg(b), a.addr)

movaps(text, optype, a, b) ==
    IF optype # "OPT_REG_MEM" THEN ABORT
    ELSE IF ~(a.r >= XMM0 /\ a.r <= XMM7) THEN ABORT
    ELSE encode_sib_addr(Code(<<PREFIX_SSE, 41>>), text, a.r - XMM0, b.addr)

\* Any operand type but a register fails an assertion.
push_strict(optype, op) ==
    IF optype = "OPT_REG" THEN Code(<<80 + reg(op)>>) ELSE ABORT

push(optype, op) ==
    IF optype = "OPT_REG" THEN Code(<<80 + reg(op)>>) ELSE nop

sub(optype, a, b) ==
    CASE optype = "OPT_IMM_REG" ->
            IF is_64_bit(b) = 0 THEN ABORT
            ELSE LET head == <<Or3(REX, W(b), B(b)),
                               BitOr(129, IF is_byte_imm(a) THEN 2 ELSE 0),
                               BitOr(232, reg(b))>>
                 IN IF is_byte_imm(a) THEN Code(head \o <<d_byte(a)>>)
                    ELSE IF is_32bit_imm(a) THEN Code(head \o d_dword(a))
                    ELSE Code(<<head[1]>>)
      [] optype = "OPT_REG_REG" ->
            LET prefix == IF is_64_bit(a) = 1
                          THEN <<Or4(REX, W(a), R(a), B(b))>> ELSE << >>
            IN Code(prefix \o <<BitOr(40, w(a)), ModRM(reg(a), reg(b))>>)
      [] OTHER -> ABORT

add(optype, a, b) ==
    CASE optype = "OPT_REG_REG" ->
            LET prefix == IF is_64_bit(a) = 1
                          THEN <<Or4(REX, W(a), R(a), B(b))>> ELSE << >>
            IN Code(prefix \o <<BitOr(0, w(a)), ModRM(reg(a), reg(b))>>)
      [] optype = "OPT_IMM_REG" -> nop
      [] optype = "OPT_IMM_MEM" -> nop
      [] OTHER -> ABORT

call(text, optype, op) ==
    IF optype = "OPT_IMM"
    THEN IF op.type # IMM_ADDR \/ op.addr.sym = "" THEN ABORT
         ELSE Emit(elf_add_reloc_text(Code(<<232>>), text, op.addr.sym,
                       "R_X86_64_PC32", 1, op.addr.disp),
                   <<0, 0, 0, 0>>)
    ELSE IF optype # "OPT_REG" THEN ABORT
    ELSE IF is_64_bit_reg(op.r) = 0 THEN ABORT
    ELSE Code(<<BitOr(REX, w(op)), 255, BitOr(208, reg(op))>>)

cmp(optype, a, b) ==
    CASE optype = "OPT_IMM_REG" ->
            IF is_64_bit(b) = 0 /\ is_64_bit_reg(b.r) = 0
            THEN LET head == <<BitOr(128, w(b)), BitOr(248, reg(b))>>
                 IN IF is_byte_imm(a)
                    THEN Code(<<BitOr(head[1], 2), head[2], d_byte(a)>>)
                    ELSE IF a.w # 4 THEN ABORT
                    ELSE Code(head \o d_dword(a))
            ELSE ABORT
      [] optype = "OPT_REG_REG" ->
            IF a.w # b.w THEN ABORT
            ELSE IF is_64_bit(a) = 0 /\ is_64_bit_reg(a.r) = 0
            THEN Code(<<BitOr(56, w(a)), ModRM(reg(a), reg(b))>>)
            ELSE ABORT
      [] OTHER -> ABORT

jcc(text, optype, cond, op) ==
    IF optype # "OPT_IMM" THEN ABORT
    ELSE IF op.addr.sym = "" THEN ABORT
    ELSE LET disp == elf_text_displacement(text, op.addr.sym, 2) + op.addr.disp - 4
         IN elf_pending(Code(<<15, BitOr(128, cond)>> \o LittleEndian(disp, 4)),
                        text, op.addr.sym, 2)

\* The displacement field is left without the bias of its own length.
jmp_unbiased(text, optype, op) ==
    IF optype # "OPT_IMM" THEN ABORT
    ELSE IF op.addr.sym = "" THEN ABORT
    ELSE LET disp == elf_text_displacement(text, op.addr.sym, 1) + op.addr.disp
         IN elf_pending(Code(<<233>> \o LittleEndian(disp, 4)),
                        text, op.addr.sym, 1)

jmp(text, optype, op) ==
    IF optype # "OPT_IMM" THEN ABORT
    ELSE IF op.addr.sym = "" THEN ABORT
    ELSE LET disp == elf_text_displacement(text, op.addr.sym, 1) + op.addr.disp - 4
         IN elf_pending(Code(<<233>> \o LittleEndian(disp, 4)),
                        text, op.addr.sym, 1)

leave == Code(<<201>>)

lea(text, optype, a, b) ==
    IF optype # "OPT_MEM_REG" THEN ABORT
    ELSE IF is_64_bit(b) = 0 THEN ABORT
    ELSE encode_sib_addr(Code(<<Or3(REX, W(b), R(b)), 141>>), text, reg(b), a.addr)

rep_movsq == Code(<<243, REX + 8, 165>>)

encode_ret == Code(<<195>>)

setcc(optype, cond, op) ==
    IF optype # "OPT_REG" THEN ABORT
    ELSE IF is_64_bit(op) = 1 THEN ABORT
    ELSE Code(<<15, BitOr(144, cond), BitOr(192, reg(op))>>)

test(optype, a, b) ==
    IF optype # "OPT_REG_REG" THEN ABORT
    ELSE IF is_64_bit_reg(a.r) = 1 THEN ABORT
    ELSE Code(<<BitOr(132, w(a)), ModRM(reg(a), reg(b))>>)

\* The one-register forms of not, mul and div: opcode 0xF6 | w and a
\* ModR/M byte whose reg field extends the opcode.
unary_register(ext, op) ==
    LET prefix == IF is_64_bit_reg(op.r) = 1 \/ op.w > 4
                  THEN <<Or3(REX, W(op), B(op))>> ELSE << >>
    IN Code(prefix \o <<BitOr(246, w(op)), BitOr(ext, reg(op))>>)

unary_memory(text, ext, op) ==
    LET prefix == IF op.w > 4
                  THEN <<Or3(REX, W(op), is_64_bit_reg(op.addr.base))>>
                  ELSE << >>
    IN encode_sib_addr(Code(prefix \o <<BitOr(246, w(op))>>), text, ext, op.addr)

not(optype, op) ==
    IF optype # "OPT_REG" THEN ABORT ELSE unary_register(208, op)

mul(text, optype, op) ==
    IF optype = "OPT_REG" THEN unary_register(224, op)
    ELSE IF optype # "OPT_MEM" THEN ABORT
    ELSE unary_memory(text, 4, op)

encode_div(text, optype, op) ==
    IF optype = "OPT_REG" THEN unary_register(240, op)
    ELSE IF optype # "OPT_MEM" THEN ABORT
    ELSE unary_memory(text, 6, op)

basic_register_only_encode(opcode, a, b) ==
    LET prefix == IF is_64_bit_reg(a.r) = 1 \/ a.w > 4
                  THEN <<Or4(REX, W(a), R(a), B(b))>> ELSE << >>
    IN Code(prefix \o <<BitOr(opcode, w(a)), ModRM(reg(a), reg(b))>>)

xor(optype, a, b) ==
    IF optype # "OPT_REG_REG" THEN ABORT
    ELSE basic_register_only_encode(48, a, b)

and(optype, a, b) ==
    IF optype # "OPT_REG_REG" THEN ABORT
    ELSE basic_register_only_encode(32, a, b)

or(optype, a, b) ==
    IF optype # "OPT_REG_REG" THEN ABORT
    ELSE basic_register_only_encode(8, a, b)

\* shl, shr and sar: the count is implicitly CL.
shift(ext, optype, a, b) ==
    IF optype # "OPT_REG_REG" THEN ABORT
    ELSE IF ~(a.r = CX /\ a.w = 1) THEN ABORT
    ELSE LET prefix == IF is_64_bit_reg(b.r) = 1 \/ b.w > 4
                       THEN <<Or3(REX, W(b), B(b))>> ELSE << >>
         IN Code(prefix \o <<BitOr(210, w(b)), BitOr(ext, reg(b))>>)

shl(optype, a, b) == shift(224, optype, a, b)
shr(optype, a, b) == shift(248, optype, a, b)
sar(optype, a, b) == shift(248, optype, a, b)

\* The condition of each conditional jump and each conditional set.
JumpCondition ==
    [INSTR_JA |-> TEST_A, INSTR_JG |-> TEST_G, INSTR_JZ |-> TEST_Z,
     INSTR_JAE |-> TEST_AE, INSTR_JGE |-> TEST_GE]
SetCondition ==
    [INSTR_SETZ |-> TEST_Z, INSTR_SETA |-> TEST_A, INSTR_SETG |-> TEST_G,
     INSTR_SETAE |-> TEST_AE, INSTR_SETGE |-> TEST_GE]

encode(text, in) ==
    LET op == in.opcode
        ot == in.optype
        s == in.source
        d == in.dest
    IN CASE op = "INSTR_ADD" -> add(ot, s, d)
         [] op = "INSTR_NOT" -> not(ot, s)
         [] op = "INSTR_MUL" -> mul(text, ot, s)
         [] op = "INSTR_XOR" -> xor(ot, s, d)
         [] op = "INSTR_DIV" -> encode_div(text, ot, s)
         [] op = "INSTR_AND" -> and(ot, s, d)
         [] op = "INSTR_OR" -> or(ot, s, d)
         [] op = "INSTR_SHL" -> shl(ot, s, d)
         [] op = "INSTR_SHR" -> shr(ot, s, d)
         [] op = "INSTR_SAR" -> sar(ot, s, d)
         [] op = "INSTR_CALL" -> call(text, ot, s)
         [] op = "INSTR_CMP" -> cmp(ot, s, d)
         [] op = "INSTR_MOV" -> mov(text, ot, s, d)
         [] op = "INSTR_MOVSX" -> movsx(text, ot, s, d)
         [] op = "INSTR_MOVZX" -> movzx(text, ot, s, d)
         [] op = "INSTR_MOVAPS" -> movaps(text, ot, s, d)
         [] op = "INSTR_PUSH" -> push(ot, s)
         [] op = "INSTR_SUB" -> sub(ot, s, d)
         [] op = "INSTR_LEA" -> lea(text, ot, s, d)
         [] op = "INSTR_LEAVE" -> leave
         [] op = "INSTR_REP_MOVSQ" -> IF ot # "OPT_NONE" THEN ABORT ELSE rep_movsq
         [] op = "INSTR_RET" -> encode_ret
         [] op = "INSTR_JMP" -> jmp(text, ot, s)
         [] op \in DOMAIN JumpCondition -> jcc(text, ot, JumpCondition[op], s)
         [] op \in DOMAIN SetCondition -> setcc(ot, SetCondition[op], s)
         [] op = "INSTR_TEST" -> test(ot, s, d)
         [] OTHER -> nop

\* ------------------------------------------------------------------------
\* The instructions encoded: every opcode with every operand type, the
\* operands drawn from a catalogue of registers, addresses and immediates.
\* ------------------------------------------------------------------------
Opcodes ==
    {"INSTR_ADD", "INSTR_NOT", "INSTR_MUL", "INSTR_XOR", "INSTR_DIV",
     "INSTR_AND", "INSTR_OR", "INSTR_SHL", "INSTR_SHR", "INSTR_SAR",
     "INSTR_CALL", "INSTR_CMP", "INSTR_MOV", "INSTR_MOVSX", "INSTR_MOVZX",
     "INSTR_MOVAPS", "INSTR_PUSH", "INSTR_SUB", "INSTR_LEA", "INSTR_LEAVE",
     "INSTR_REP_MOVSQ", "INSTR_RET", "INSTR_JMP", "INSTR_JA", "INSTR_JG",
     "INSTR_JZ", "INSTR_JAE", "INSTR_JGE", "INSTR_SETZ", "INSTR_SETA",
     "INSTR_SETG", "INSTR_SETAE", "INSTR_SETGE", "INSTR_TEST"}
\* An opcode value that has no case in encode.
OtherOpcodes == {"INSTR_POP"}
Optypes ==
    {"OPT_NONE", "OPT_REG", "OPT_MEM", "OPT_IMM", "OPT_REG_REG",
     "OPT_REG_MEM", "OPT_MEM_REG", "OPT_IMM_REG", "OPT_IMM_MEM"}

Widths == {1, 2, 4, 8}
GeneralRegisters == AX..R15
Register(r, width) == [r |-> r, w |-> width]
RegisterOperands ==
    {Register(r, width) : r \in {AX, CX, SP, DI, R8, R13}, width \in Widths}
PairedRegisters ==
    {Register(r, width) : r \in {AX, R8}, width \in Widths}
    \cup {Register(SP, 8)}
XmmOperands == {Register(XMM0, 8), Register(XMM7, 8)}

Address(sym, base, disp) == [sym |-> sym, base |-> base, offset |-> 0, disp |-> disp]
Displacements == {0, 8, 128}
Addresses ==
    {Address("", base, disp) : base \in GeneralRegisters, disp \in Displacements}
    \cup {Address("", BP, -8), Address("", BP, -129)}
    \cup {Address("g", 0, 0), Address("g", 0, 4)}
Memory(addr, width) == [addr |-> addr, w |-> width]
MemoryOperands ==
    {Memory(addr, 8) : addr \in Addresses}
    \cup {Memory(Address("", AX, 8), width) : width \in Widths}
PairedMemory ==
    {m \in MemoryOperands :
        m.addr.sym = "" => m.addr.base \in {AX, SP, BP, R8, R13}}

Immediate(type, width, d, addr) ==
    [type |-> type, w |-> width, d |-> d, addr |-> addr]
IntImm(width, bytes) ==
    Immediate(IMM_INT, width,
              bytes \o [i \in 1..(8 - Len(bytes)) |-> 0], Address("", 0, 0))
AddrImm(sym, disp) ==
    Immediate(IMM_ADDR, 8, <<0, 0, 0, 0, 0, 0, 0, 0>>, Address(sym, 0, disp))
Integers8 == {IntImm(1, <<5>>), IntImm(1, <<255>>)}
Integers16 == {IntImm(2, <<5, 0>>), IntImm(2, <<52, 18>>)}
Integers32 ==
    {IntImm(4, <<5, 0, 0, 0>>), IntImm(4, <<4, 3, 2, 1>>), IntImm(4, <<0, 0, 0, 128>>)}
Integers64 ==
    {IntImm(8, <<5>>), IntImm(8, <<4, 3, 2, 1>>), IntImm(8, <<0, 0, 0, 128>>),
     IntImm(8, <<255, 255, 255, 255, 255, 255, 255, 255>>),
     IntImm(8, <<8, 7, 6, 5, 4, 3, 2, 1>>)}
IntegerOperands == Integers8 \cup Integers16 \cup Integers32 \cup Integers64
AddressOperands == {AddrImm("L", 0), AddrImm("L", 4), AddrImm("f", 0), AddrImm("", 0)}
ImmediateOperands == IntegerOperands \cup AddressOperands

NoOperand == [none |-> TRUE]
Instruction(opcode, optype, source, dest) ==
    [opcode |-> opcode, optype |-> optype, source |-> source, dest |-> dest]

Sources(optype) ==
    CASE optype = "OPT_NONE" -> {NoOperand}
      [] optype = "OPT_REG" -> RegisterOperands
      [] optype = "OPT_MEM" -> MemoryOperands
      [] optype = "OPT_IMM" -> AddressOperands
      [] optype = "OPT_REG_REG" -> RegisterOperands
      [] optype = "OPT_REG_MEM" -> PairedRegisters \cup XmmOperands
      [] optype = "OPT_MEM_REG" -> PairedMemory
      [] optype = "OPT_IMM_REG" -> ImmediateOperands
      [] optype = "OPT_IMM_MEM" -> {IntImm(4, <<5, 0, 0, 0>>)}

Dests(optype) ==
    CASE optype \in {"OPT_NONE", "OPT_REG", "OPT_MEM", "OPT_IMM"} -> {NoOperand}
      [] optype = "OPT_REG_REG" -> PairedRegisters
      [] optype = "OPT_REG_MEM" -> PairedMemory
      [] optype = "OPT_MEM_REG" -> PairedRegisters
      [] optype = "OPT_IMM_REG" -> PairedRegisters
      [] optype = "OPT_IMM_MEM" -> PairedMemory

Instructions ==
    UNION {{Instruction(opcode, optype, source, dest) :
                source \in Sources(optype), dest \in Dests(optype)} :
           opcode \in Opcodes \cup OtherOpcodes, optype \in Optypes}

\* The text section before the call: sixteen bytes long, the label L
\* unresolved or resolved at offset 48.
Text(offset, label) ==
    [offset |-> offset, label |-> label, relocs |-> << >>, fixups |-> << >>]
Sections == {Text(16, Unresolved), Text(16, 48)}

InitEnc ==
    /\ types = BasicRegistry
    /\ ns_tag = << >>
    /\ open = << >>
    /\ pending = NULL
    /\ unsound = {}
    /\ ndecls = 0
    /\ status = "run"
    /\ args = << >>
    /\ ret = VOID
    /\ params = << >>
    /\ res = << >>
    /\ next_integer_reg = 0
    /\ int_regs = << >>
    /\ pc = "idle"
    /\ FnIdle
    /\ PrsIdle
    /\ DclIdle
    /\ instr \in Instructions
    /\ elf \in Sections
    /\ code = << >>
    /\ encoded = FALSE

\* One call of encode(instr): the struct code it returns, the relocations
\* and fixups it records in the text section.
Encode ==
    /\ ~encoded
    /\ LET c == encode(elf, instr)
       IN /\ code' = [val |-> c.val, abort |-> c.abort]
          /\ elf' = [elf EXCEPT !.relocs = @ \o c.relocs,
                                !.fixups = @ \o c.fixups]
    /\ encoded' = TRUE
    /\ UNCHANGED <<parser, abi, fnv, prs, dcl, instr>>

NextEnc == Encode

SpecEnc == InitEnc /\ [][NextEnc]_vars

Accepted == encoded /\ ~code.abort

\* C12: every instruction that encode accepts is returned as at least 1 and
\* at most 15 bytes, and encoding it records at most one relocation.
C12_LengthAndRelocations ==
    Accepted =>
        /\ Len(code.val) >= 1
        /\ Len(code.val) <= 15
        /\ Len(elf.relocs) + Len(elf.fixups) <= 1

\* The longest encoding, a 64-bit immediate moved to an extended register,
\* and an encoding that records a relocation.
C12_Witness ==
    /\ Accepted
    /\ \/ instr.opcode = "INSTR_MOV" /\ Len(code.val) = 10
       \/ instr.opcode = "INSTR_LEA" /\ Len(elf.relocs) = 1

\* The (opcode, optype) combinations that a builder of encode encodes;
\* leave and ret are encoded whatever the optype.
TwoRegisters ==
    {"INSTR_ADD", "INSTR_XOR", "INSTR_AND", "INSTR_OR", "INSTR_SHL",
     "INSTR_SHR", "INSTR_SAR", "INSTR_CMP", "INSTR_MOV", "INSTR_MOVZX",
     "INSTR_SUB", "INSTR_TEST"}
Recognised ==
    (TwoRegisters \X {"OPT_REG_REG"})
    \cup ({"INSTR_NOT", "INSTR_MUL", "INSTR_DIV", "INSTR_CALL", "INSTR_PUSH"}
          \X {"OPT_REG"})
    \cup ((DOMAIN SetCondition) \X {"OPT_REG"})
    \cup ({"INSTR_MUL", "INSTR_DIV"} \X {"OPT_MEM"})
    \cup (({"INSTR_CALL", "INSTR_JMP"} \cup (DOMAIN JumpCondition)) \X {"OPT_IMM"})
    \cup ({"INSTR_CMP", "INSTR_MOV", "INSTR_SUB"} \X {"OPT_IMM_REG"})
    \cup ({"INSTR_MOV", "INSTR_MOVAPS"} \X {"OPT_REG_MEM"})
    \cup ({"INSTR_MOV", "INSTR_MOVSX", "INSTR_MOVZX", "INSTR_LEA"} \X {"OPT_MEM_REG"})
    \cup ({"INSTR_LEAVE", "INSTR_RET"} \X Optypes)
    \cup {<<"INSTR_REP_MOVSQ", "OPT_NONE">>}
Unrecognised == encoded /\ <<instr.opcode, instr.optype>> \notin Recognised

\* C13 (as claimed): for every (opcode, optype) combination that encode does
\* not recognise, encode returns the single byte 0x90 and does not abort.
C13_UnrecognisedIsNop ==
    Unrecognised => ~code.abort /\ code.val = <<144>>

\* The unrecognised combinations that fall through to nop(): an opcode
\* without a case in encode, any other optype of MOV and of PUSH, and the
\* two forms of ADD that have a case but no encoding.
FallsThrough ==
    \/ instr.opcode \notin Opcodes
    \/ instr.opcode \in {"INSTR_MOV", "INSTR_PUSH"}
    \/ instr.opcode = "INSTR_ADD" /\ instr.optype \in {"OPT_IMM_REG", "OPT_IMM_MEM"}

\* C13 (amended): an unrecognised combination returns the single byte 0x90
\* when it falls through to nop(), and fails an assertion in every other
\* builder.
C13_NopOrAbort ==
    Unrecognised =>
        IF FallsThrough THEN ~code.abort /\ code.val = <<144>> /\ elf.relocs = << >>
        ELSE code.abort

C13_Witness ==
    /\ Unrecognised
    /\ instr.opcode = "INSTR_PUSH"
    /\ instr.optype = "OPT_MEM"
    /\ code.val = <<144>>

\* The operands of the instruction, by role: every register and memory
\* operand, the register encoded in the ModR/M reg field, and the register
\* encoded in the r/m field or in the opcode byte (the base register of a
\* memory operand without a symbol).
ExtendedRegisters == R8..R15
HasSource == instr.optype \in {"OPT_REG", "OPT_MEM", "OPT_REG_REG", "OPT_REG_MEM", "OPT_MEM_REG"}
HasDest == instr.optype \in {"OPT_REG_REG", "OPT_REG_MEM", "OPT_MEM_REG", "OPT_IMM_REG", "OPT_IMM_MEM"}
Operands ==
    (IF HasSource THEN {instr.source} ELSE {})
    \cup (IF HasDest THEN {instr.dest} ELSE {})
Shifts == {"INSTR_SHL", "INSTR_SHR", "INSTR_SAR"}
BaseOf(m) == IF m.addr.sym = "" THEN {m.addr.base} ELSE {}
RegField ==
    CASE instr.optype = "OPT_REG_REG" ->
            IF instr.opcode \in Shifts THEN {}
            ELSE IF instr.opcode = "INSTR_MOVZX" THEN {instr.dest.r}
            ELSE {instr.source.r}
      [] instr.optype = "OPT_REG_MEM" -> {instr.source.r}
      [] instr.optype = "OPT_MEM_REG" -> {instr.dest.r}
      [] OTHER -> {}
RmField ==
    CASE instr.optype = "OPT_REG_REG" ->
            IF instr.opcode = "INSTR_MOVZX" THEN {instr.source.r} ELSE {instr.dest.r}
      [] instr.optype = "OPT_REG" -> {instr.source.r}
      [] instr.optype = "OPT_IMM_REG" -> {instr.dest.r}
      [] instr.optype \in {"OPT_MEM", "OPT_MEM_REG"} -> BaseOf(instr.source)
      [] instr.optype \in {"OPT_REG_MEM", "OPT_IMM_MEM"} -> BaseOf(instr.dest)
      [] OTHER -> {}
Is64BitWide == \E o \in Operands : o.w = 8
NeedsRex ==
    \/ Is64BitWide
    \/ (RegField \cup RmField) \cap ExtendedRegisters # {}

\* The REX prefix of a code, 0 when it has none: a byte 0x40..0x4F in front
\* of the opcode, after a legacy prefix if there is one.
RexOf(val) ==
    IF Len(val) >= 1 /\ val[1] \in 64..79 THEN val[1]
    ELSE IF Len(val) >= 2 /\ val[1] \in {102, 243} /\ val[2] \in 64..79 THEN val[2]
    ELSE 0
RexW(rex) == (rex \div 8) % 2 = 1
RexR(rex) == (rex \div 4) % 2 = 1
RexB(rex) == rex % 2 = 1

\* C14: every code produced by encode contains a REX prefix whenever an
\* operand is 64 bits wide, a register operand is one of R8..R15 or the base
\* register of a memory operand is one of R8..R15; in that prefix W is set
\* exactly when the operand width is 64 bits, R exactly when the register of
\* the ModR/M reg field is extended, B exactly when the r/m or
\* opcode-embedded register is extended.
C14_RexPrefix ==
    (/\ Accepted
     /\ <<instr.opcode, instr.optype>> \in Recognised
     /\ instr.opcode \notin {"INSTR_LEAVE", "INSTR_RET"}) =>
        LET rex == RexOf(code.val)
        IN /\ NeedsRex => rex # 0
           /\ rex # 0 =>
                /\ RexW(rex) <=> Is64BitWide
                /\ RexR(rex) <=> RegField \cap ExtendedRegisters # {}
                /\ RexB(rex) <=> RmField \cap ExtendedRegisters # {}

\* PUSH of R8 is returned as the one byte 0x50, the code of PUSH of AX.
C14_PushExtended ==
    ~(/\ Accepted
      /\ instr.opcode = "INSTR_PUSH"
      /\ instr.optype = "OPT_REG"
      /\ instr.source.r = R8
      /\ code.val = <<80>>)

\* MOV of an integer immediate to a register.
MovImmediate ==
    /\ Accepted
    /\ instr.opcode = "INSTR_MOV"
    /\ instr.optype = "OPT_IMM_REG"
    /\ instr.source.type = IMM_INT
\* The value of the immediate as n little-endian bytes, and the widths in
\* which it can be written without changing it.
ImmediateAs(imm, n) ==
    [i \in 1..n |-> IF i <= imm.w THEN imm.d[i]
                    ELSE IF imm.d[imm.w] >= 128 THEN 255 ELSE 0]
ImmediateWidths(imm) ==
    {n \in Widths : n >= imm.w \/ SignExtends(SubSeq(imm.d, 1, imm.w), n)}
InRangeOf32Bits(imm) == imm.w < 8 \/ SignExtends(imm.d, 4)
WithoutRex(val) == IF RexOf(val) # 0 THEN Tail(val) ELSE val
MovExample(r, width) ==
    /\ MovImmediate
    /\ instr.source = IntImm(4, <<4, 3, 2, 1>>)
    /\ instr.dest = Register(r, width)

\* C15: MOV imm, reg is the short form 0xB8+reg followed by the immediate,
\* except that a 64-bit destination with an immediate in the 32-bit range is
\* REX.W, 0xC7, ModR/M 0xC0|reg and a 4-byte little-endian immediate;
\* MOV 0x01020304, EAX is B8 04 03 02 01 without relocation and
\* MOV 0x01020304, RAX is 48 C7 C0 04 03 02 01.
C15_MovImmediate ==
    /\ MovImmediate =>
        IF instr.dest.w = 8 /\ InRangeOf32Bits(instr.source)
        THEN /\ RexW(RexOf(code.val))
             /\ WithoutRex(code.val) =
                    <<199, 192 + reg(instr.dest)>> \o ImmediateAs(instr.source, 4)
        ELSE \E n \in ImmediateWidths(instr.source) :
                WithoutRex(code.val) =
                    <<184 + reg(instr.dest)>> \o ImmediateAs(instr.source, n)
    /\ MovExample(AX, 4) => code.val = <<184, 4, 3, 2, 1>> /\ elf.relocs = << >>
    /\ MovExample(AX, 8) => code.val = <<72, 199, 192, 4, 3, 2, 1>>

\* The two examples are encoded as claimed.
C15_Examples ==
    /\ MovExample(AX, 4) => code.val = <<184, 4, 3, 2, 1>> /\ elf.relocs = << >>
    /\ MovExample(AX, 8) => code.val = <<72, 199, 192, 4, 3, 2, 1>>

\* A one-byte immediate moved to RAX is returned as 48 B8 05.
C15_ByteToRAX ==
    ~(/\ MovImmediate
      /\ instr.source = IntImm(1, <<5>>)
      /\ instr.dest = Register(AX, 8)
      /\ code.val = <<72, 184, 5>>)

\* JMP L, the label L without a resolved text offset.
JmpUnresolved ==
    /\ encoded
    /\ instr.opcode = "INSTR_JMP"
    /\ instr.optype = "OPT_IMM"
    /\ instr.source = AddrImm("L", 0)
    /\ elf.label = Unresolved

\* C16 (as claimed): JMP L for an unresolved label L is E9 00 00 00 00 and
\* records one R_X86_64_PC32 relocation against L at current_offset + 1 with
\* addend -4.
C16_JmpZeroDisplacement ==
    JmpUnresolved =>
        /\ code.val = <<233, 0, 0, 0, 0>>
        /\ elf.relocs = <<[sym |-> "L", kind |-> "R_X86_64_PC32",
                           offset |-> elf.offset + 1, addend |-> -4]>>

\* C16 (amended): JMP L for an unresolved label L is E9 FC FF FF FF, the
\* displacement field holding -4; encode records no relocation, and the
\* displacement at current_offset + 1 is left to the fixup of L.
C16_JmpBiasedDisplacement ==
    JmpUnresolved =>
        /\ ~code.abort
        /\ code.val = <<233, 252, 255, 255, 255>>
        /\ elf.relocs = << >>
        /\ elf.fixups = <<[sym |-> "L", offset |-> elf.offset + 1]>>

C16_Witness ==
    /\ JmpUnresolved
    /\ Len(code.val) = 5
    /\ code.val[1] = 233
    /\ Len(elf.fixups) = 1

\* The x86-64 addressing rules for a ModR/M byte, the bytes after it and the
\* REX.B bit: r/m = 100 announces a SIB byte, mod = 00 with r/m = 101 is
\* RIP-relative with a 32-bit displacement, mod = 11 is a register; every
\* other form is a base register with no, an 8-bit or a 32-bit displacement.
SignedByte(b) == IF b >= 128 THEN b - 256 ELSE b
Decode(bytes, rexb) ==
    LET mod == bytes[1] \div 64
        rm == bytes[1] % 8
    IN IF mod = 3 THEN [mode |-> "register", base |-> rm + 1 + 8 * rexb, disp |-> 0]
       ELSE IF rm = 4 THEN [mode |-> "SIB", base |-> 0, disp |-> 0]
       ELSE IF mod = 0 /\ rm = 5 THEN [mode |-> "RIP", base |-> 0, disp |-> 0]
       ELSE [mode |-> "base", base |-> rm + 1 + 8 * rexb,
             disp |-> IF mod = 0 THEN 0
                      ELSE IF mod = 1 THEN SignedByte(bytes[2])
                      ELSE bytes[2] + 256 * bytes[3] + 65536 * bytes[4]
                           + 16777216 * SignedByte(bytes[5])]

\* The memory operand that the instruction encodes, if it encodes one
\* without a symbol.
MemoryOperand ==
    IF instr.optype \in {"OPT_MEM", "OPT_MEM_REG"} THEN instr.source ELSE instr.dest
EncodesMemory ==
    /\ Accepted
    /\ <<instr.opcode, instr.optype>> \in Recognised
    /\ instr.opcode \notin {"INSTR_LEAVE", "INSTR_RET"}
    /\ instr.optype \in {"OPT_MEM", "OPT_MEM_REG", "OPT_REG_MEM"}
    /\ MemoryOperand.addr.sym = ""
IsSuffix(e, val) ==
    Len(e) <= Len(val) /\ SubSeq(val, Len(val) - Len(e) + 1, Len(val)) = e
ModOf(d) == IF d = 0 THEN 0 ELSE IF in_byte_range(d) THEN 1 ELSE 2
DisplacementBytes(d) == IF d = 0 THEN 0 ELSE IF in_byte_range(d) THEN 1 ELSE 4

\* The bytes emitted for the memory operand (they end the code), in the
\* form claimed, decode to the operand, REX.B taken as the encoding of the
\* base requires.
RoundTrip(addr) ==
    \E rg \in 0..7 :
        LET e == encode_sib_addr(Code(<< >>), elf, rg, addr).val
        IN /\ IsSuffix(e, code.val)
           /\ e[1] \div 64 = ModOf(addr.disp)
           /\ Len(e) = 1 + DisplacementBytes(addr.disp)
           /\ Decode(e, is_64_bit_reg(addr.base)) =
                [mode |-> "base", base |-> addr.base, disp |-> addr.disp]

\* C17: for every memory operand given by a base register, any of the 16
\* general registers, and a displacement d without a symbol, the ModR/M and
\* displacement bytes emitted (mod = 00 and no byte for d = 0, mod = 01 and
\* one byte for d in the signed 8-bit range, mod = 10 and four little-endian
\* bytes otherwise) decode under the x86-64 addressing rules to the same
\* base register and the same displacement.
C17_AddressRoundTrip ==
    EncodesMemory => RoundTrip(MemoryOperand.addr)

\* With the bases that need a SIB byte (SP, R12) or a displacement (BP, R13
\* with d = 0) left out, the round trip holds.
C17_OtherBases ==
    (/\ EncodesMemory
     /\ (MemoryOperand.addr.base - 1) % 8 # 4
     /\ ~((MemoryOperand.addr.base - 1) % 8 = 5 /\ MemoryOperand.addr.disp = 0))
    => RoundTrip(MemoryOperand.addr)

\* The operand (%rsp) is returned as mod = 00, r/m = 100 and nothing more.
C17_StackPointer ==
    ~(/\ EncodesMemory
      /\ MemoryOperand.addr = Address("", SP, 0)
      /\ code.val[Len(code.val)] % 8 = 4
      /\ code.val[Len(code.val)] \div 64 = 0)

\* ------------------------------------------------------------------------
\* parse() and the buffer of definitions (declaration.c).
\* ------------------------------------------------------------------------
MaxDecls == 3

\* struct definition: its symbol (whether of function type), the symbol
\* lists and the block list, each NULL while its capacity is 0.
EmptyDefinition ==
    [symbol |-> NULL, function |-> FALSE, params |-> NULL, locals |-> NULL,
     nodes |-> [block |-> NULL, list |-> << >>]]
ZeroDefs == [def |-> << >>, cur |-> 0, len |-> 0, mem |-> NULL]

\* Sequencing: F applied to the value of x.
Then(x, F(_)) == CHOOSE y \in {F(v) : v \in {x}} : TRUE

\* malloc returns the next address; free of an address that is not live is
\* a double free.
malloc(h) == [h EXCEPT !.live = @ \cup {h.next}, !.next = @ + 1]
free(h, ptr) ==
    IF ptr \in h.live THEN [h EXCEPT !.live = @ \ {ptr}]
    ELSE [h EXCEPT !.twice = TRUE]

\* Block is owned by the last added definition, by fallback when the buffer
\* is empty; hascode: the block is given code.
cfg_block_init(st, hascode) ==
    LET block == st.heap.next
        h1 == malloc(st.heap)
        ircode == IF hascode THEN h1.next ELSE NULL
        h2 == IF hascode THEN malloc(h1) ELSE h1
        owner == IF st.defs.len > 0 THEN st.defs.def[st.defs.len] ELSE st.fallback
        grows == owner.nodes.block = NULL
        array == IF grows THEN h2.next ELSE owner.nodes.block
        h3 == IF grows THEN malloc(h2) ELSE h2
        owned == [owner EXCEPT !.nodes =
                    [block |-> array,
                     list |-> Append(owner.nodes.list,
                                     [addr |-> block, code |-> ircode])]]
    IN IF st.defs.len > 0
       THEN [st EXCEPT !.heap = h3, !.defs.def[st.defs.len] = owned]
       ELSE [st EXCEPT !.heap = h3, !.fallback = owned]

\* The definition is put in front of the buffer.
push_front_definition(st, sym, function) ==
    LET fresh == st.defs.mem = NULL
        st1 == [st EXCEPT
                  !.heap = IF fresh THEN malloc(@) ELSE @,
                  !.defs = [def |-> Append(@.def, EmptyDefinition),
                            cur |-> @.cur, len |-> @.len + 1,
                            mem |-> IF fresh THEN st.heap.next ELSE @.mem],
                  !.log.buffered = Append(@, sym)]
    IN Then(st1, LAMBDA s1 :
        Then(cfg_block_init(
                 [s1 EXCEPT !.defs.def[s1.defs.len] =
                     [EmptyDefinition EXCEPT !.symbol = sym, !.function = function]],
                 TRUE),
             LAMBDA s2 :
                [s2 EXCEPT !.defs.def =
                    <<s2.defs.def[s2.defs.len]>>
                    \o SubSeq(s2.defs.def, 1, s2.defs.len - 1)]))

push_back_definition(st, sym, function) ==
    LET fresh == st.defs.mem = NULL
        st1 == [st EXCEPT
                  !.heap = IF fresh THEN malloc(@) ELSE @,
                  !.defs = [def |-> Append(@.def,
                                [EmptyDefinition EXCEPT !.symbol = sym,
                                                        !.function = function]),
                            cur |-> @.cur, len |-> @.len + 1,
                            mem |-> IF fresh THEN st.heap.next ELSE @.mem],
                  !.log.buffered = Append(@, sym)]
    IN Then(st1, LAMBDA s1 : cfg_block_init(s1, TRUE))

RECURSIVE free_blocks(_, _)
free_blocks(h, list) ==
    IF list = << >> THEN h
    ELSE LET block == Head(list)
             h1 == IF block.code # NULL THEN free(h, block.code) ELSE h
         IN free_blocks(free(h1, block.addr), Tail(list))

\* The definition is left as it was: no memset.
clear_definition_no_memset(h, def) ==
    LET h1 == IF def.params # NULL THEN free(h, def.params) ELSE h
        h2 == IF def.locals # NULL THEN free(h1, def.locals) ELSE h1
        h3 == IF def.nodes.block # NULL
              THEN free(free_blocks(h2, def.nodes.list), def.nodes.block)
              ELSE h2
    IN [heap |-> h3, def |-> def]

clear_definition(h, def) ==
    LET h1 == IF def.params # NULL THEN free(h, def.params) ELSE h
        h2 == IF def.locals # NULL THEN free(h1, def.locals) ELSE h1
        h3 == IF def.nodes.block # NULL
              THEN free(free_blocks(h2, def.nodes.list), def.nodes.block)
              ELSE h2
    IN [heap |-> h3, def |-> EmptyDefinition]

\* The index in the buffer of the function being defined.
current_func(buffer) ==
    CHOOSE i \in (buffer.cur + 1)..buffer.len :
        /\ buffer.def[i].function
        /\ \A j \in (i + 1)..buffer.len : ~buffer.def[j].function

\* sym_list_add to the list named field of the definition at index i.
sym_list_add(st, i, field) ==
    IF st.defs.def[i][field] # NULL THEN st
    ELSE [st EXCEPT !.heap = malloc(@), !.defs.def[i][field] = st.heap.next]

\* The declarations of the token stream:
\*   "tentative"        int x;
\*   "enum"             enum { A = 1 } foo;       (a block with no owner)
\*   "object"           int a = 1;
\*   "objects"          int a = 1, b = 2;
\*   "function"         int f(int p) { int t; if (p) ...; }
\*   "function_static"  int f(void) { static int x = 1; if (x) ...; }
Declarations ==
    {"tentative", "enum", "object", "objects", "function", "function_static"}
NewSymbol(st) == Len(st.log.buffered) + 1

\* A statement of a function body that starts a block, if (x) ...;: the
\* block, the function whose body is parsed and the definition added last
\* are noted.
statement(st) ==
    Then(cfg_block_init(st, FALSE), LAMBDA s1 :
        [s1 EXCEPT !.log.made =
            Append(@, [addr |-> st.heap.next,
                       func |-> st.defs.def[current_func(st.defs)].symbol,
                       last |-> st.defs.def[st.defs.len].symbol])])

declaration(st, decl) ==
    CASE decl = "tentative" -> st
      [] decl = "enum" -> cfg_block_init(st, FALSE)
      [] decl = "object" -> push_back_definition(st, NewSymbol(st), FALSE)
      [] decl = "objects" ->
            Then(push_back_definition(st, NewSymbol(st), FALSE), LAMBDA s1 :
                push_back_definition(s1, NewSymbol(s1), FALSE))
      [] decl = "function" ->
            Then(push_back_definition(st, NewSymbol(st), TRUE), LAMBDA s1 :
            Then(sym_list_add(s1, s1.defs.len, "params"), LAMBDA s2 :
            Then(sym_list_add(s2, current_func(s2.defs), "locals"), LAMBDA s3 :
                statement(s3))))
      [] decl = "function_static" ->
            Then(push_back_definition(st, NewSymbol(st), TRUE), LAMBDA s1 :
            Then(sym_list_add(s1, current_func(s1.defs), "locals"), LAMBDA s2 :
            Then(push_back_definition(s2, NewSymbol(s2), FALSE), LAMBDA s3 :
            Then(statement(s3), LAMBDA s4 :
                sym_list_add(s4, current_func(s4.defs), "locals")))))

\* while (!defs.len && peek().token != END)
RECURSIVE parse_declarations(_, _)
parse_declarations(st, toks) ==
    IF st.defs.len = 0 /\ toks # << >>
    THEN Then(declaration(st, Head(toks)), LAMBDA s1 :
         Then(clear_definition(s1.heap, s1.fallback), LAMBDA cleared :
         Then([s1 EXCEPT !.heap = cleared.heap, !.fallback = cleared.def],
              LAMBDA s2 : parse_declarations(s2, Tail(toks)))))
    ELSE [st |-> st, toks |-> toks]

\* What parse() does once the loop has ended.
next_definition(parsed, last) ==
    LET buffer == parsed.st.defs
        take == buffer.cur < buffer.len
        def == IF take THEN buffer.def[buffer.cur + 1] ELSE EmptyDefinition
        drained == take /\ buffer.cur + 1 = buffer.len
        h1 == IF drained THEN free(parsed.st.heap, buffer.mem) ELSE parsed.st.heap
    IN [toks |-> parsed.toks,
        defs |-> IF drained THEN ZeroDefs
                 ELSE IF take THEN [buffer EXCEPT !.cur = @ + 1]
                 ELSE buffer,
        fallback |-> parsed.st.fallback,
        heap |-> IF last.symbol # NULL
                 THEN Then(h1, LAMBDA h : clear_definition(h, last).heap)
                 ELSE h1,
        buffered |-> parsed.st.log.buffered,
        made |-> parsed.st.log.made,
        def |-> def]

parse(st, toks, last) ==
    Then(parse_declarations(st, toks), LAMBDA parsed : next_definition(parsed, last))

Streams == UNION {[1..n -> Declarations] : n \in 1..MaxDecls}

InitParse ==
    /\ types = BasicRegistry
    /\ ns_tag = << >>
    /\ open = << >>
    /\ pending = NULL
    /\ unsound = {}
    /\ ndecls = 0
    /\ status = "run"
    /\ args = << >>
    /\ ret = VOID
    /\ params = << >>
    /\ res = << >>
    /\ next_integer_reg = 0
    /\ int_regs = << >>
    /\ pc = "idle"
    /\ FnIdle
    /\ EncIdle
    /\ tokens \in Streams
    /\ defs = ZeroDefs
    /\ fallback = EmptyDefinition
    /\ last_def_returned = EmptyDefinition
    /\ heap = [live |-> {}, next |-> 1, twice |-> FALSE]
    /\ retval = EmptyDefinition
    /\ log = [buffered |-> << >>, made |-> << >>, returned |-> << >>, called |-> FALSE,
              previous |-> EmptyDefinition, entry |-> ZeroDefs, consumed |-> 0]
    /\ DclIdle

\* One call of parse() by the compiler driver.
Parse ==
    \E st \in {[defs |-> defs, fallback |-> fallback, heap |-> heap, log |-> log]} :
    \E out \in {parse(st, tokens, last_def_returned)} :
       /\ tokens' = out.toks
       /\ defs' = out.defs
       /\ fallback' = out.fallback
       /\ heap' = out.heap
       /\ last_def_returned' = out.def
       /\ retval' = out.def
       /\ log' = [buffered |-> out.buffered,
                  made |-> out.made,
                  returned |-> IF out.def.symbol # NULL
                               THEN Append(log.returned, out.def.symbol)
                               ELSE log.returned,
                  called |-> TRUE,
                  previous |-> retval,
                  entry |-> defs,
                  consumed |-> Len(tokens) - Len(out.toks)]
       /\ UNCHANGED <<parser, abi, fnv, enc, dcl>>

NextParse == Parse

SpecParse == InitParse /\ [][NextParse]_vars

\* The symbols of the definitions waiting in the buffer, in its order.
Waiting == [i \in 1..(defs.len - defs.cur) |-> defs.def[defs.cur + i].symbol]

\* C18: across successive calls parse() returns every buffered definition
\* exactly once and in the order of buffering; it parses declarations only
\* when the buffer is empty, and it returns an empty definition only when
\* the buffer is empty and the token stream is at END.
C18_LazyProducer ==
    /\ log.returned \o Waiting = log.buffered
    /\ log.consumed > 0 => log.entry.len = 0
    /\ (log.called /\ retval.symbol = NULL) =>
            /\ log.entry.len = 0
            /\ defs.len = 0
            /\ tokens = << >>
            /\ log.returned = log.buffered

\* The second of two buffered definitions is returned by a call that found
\* the buffer non-empty.
C18_Witness ==
    /\ log.called
    /\ log.entry.len = 2
    /\ log.entry.cur = 1
    /\ log.consumed = 0
    /\ Len(log.returned) >= 2
    /\ retval.symbol = log.buffered[Len(log.returned)]

\* The addresses a definition holds: its symbol lists, its block list, its
\* blocks and their code.
Allocations(def) ==
    ({def.params, def.locals, def.nodes.block}
     \cup {def.nodes.list[i].addr : i \in 1..Len(def.nodes.list)}
     \cup {def.nodes.list[i].code : i \in 1..Len(def.nodes.list)})
    \ {NULL}

\* C19: the blocks and the symbol lists of a definition returned by parse()
\* stay allocated until the next call of parse(); that call releases them,
\* and nothing is released twice.
C19_ReleasedByNextCall ==
    /\ log.called => Allocations(retval) \subseteq heap.live
    /\ Allocations(log.previous) \cap heap.live = {}
    /\ ~heap.twice

\* A function definition with locals and two blocks was returned and then
\* released by the call that returned the next definition.
C19_Witness ==
    /\ log.previous.symbol # NULL
    /\ log.previous.function
    /\ log.previous.locals # NULL
    /\ Len(log.previous.nodes.list) >= 2
    /\ retval.symbol # NULL
    /\ Allocations(retval) # {}

\* The definitions the parser or its caller holds: those waiting in the
\* buffer and the one returned last.
Held ==
    {defs.def[i] : i \in (defs.cur + 1)..defs.len}
        \cup (IF retval.symbol # NULL THEN {retval} ELSE {})
BlocksOf(def) == {def.nodes.list[i].addr : i \in 1..Len(def.nodes.list)}
Made == {log.made[i] : i \in 1..Len(log.made)}
Released == {log.returned[i] : i \in 1..(Len(log.returned) - 1)}
             \cup (IF retval.symbol = NULL
                   THEN {log.returned[i] : i \in 1..Len(log.returned)} ELSE {})

\* C28: every CFG block created while a function definition's body is being
\* parsed is recorded in the nodes list of that function's Definition, also
\* when object definitions (static locals with initializers) are buffered
\* during the body, so the block is freed when, and only when, that
\* Definition is released.
C28_OwnedByFunction ==
    \A m \in Made :
        /\ \A def \in Held : m.addr \in BlocksOf(def) <=> def.symbol = m.func
        /\ m.addr \in heap.live <=> m.func \notin Released

\* A block made after a static local was buffered is in the list of the
\* static local's definition, and outlives the function's definition.
C28_OwnedByStaticLocal ==
    ~(\E m \in Made :
        /\ m.func # m.last
        /\ retval.symbol = m.last
        /\ m.addr \in BlocksOf(retval)
        /\ m.func \in Released
        /\ m.addr \in heap.live)

\* A block is in the list of the definition that was added last when it was
\* made, and is freed when that definition is released.
C28_OwnedByLast ==
    \A m \in Made :
        /\ \A def \in Held : m.addr \in BlocksOf(def) <=> def.symbol = m.last
        /\ m.addr \in heap.live <=> m.last \notin Released

\* ------------------------------------------------------------------------
\* The declaration parser over a token stream (declaration.c):
\* declaration_specifiers, enum_declaration, enumerator_list and pointer.
\* A token is its spelling. The routines take and return the parser state:
\* the tokens left, the registries, the diagnostics printed, whether the
\* process has exited, and the locals of the routine that is running.
\* ------------------------------------------------------------------------
MaxSpecifiers == 3   \* tokens of a specifier list

END == "$"
Q_VOLATILE == {"volatile"}
Identifiers == {"E", "A", "B", "S", "x", "y", "f"}
Numbers == {"1", "1.5", "2", "3", "4", "5"}
NumberValue ==
    [t \in Numbers |-> CASE t = "1" -> 1 [] t = "2" -> 2 [] t = "3" -> 3
                         [] t = "4" -> 4 [] t = "5" -> 5 [] OTHER -> 0]

\* error() prints one diagnostic and returns; the position of the parser
\* is kept with the message.
error(st, message) ==
    [st EXCEPT !.diagnostics =
        Append(@, [message |-> message,
                   consumed |-> st.consumed,
                   symbols |-> Len(st.ns_ident) + Len(st.ns_tag),
                   types |-> Len(st.types)])]

exit(st) == [st EXCEPT !.exited = TRUE]

\* A routine that is not reached once the process has exited.
Run(x, F(_)) == Then(x, LAMBDA v : IF v.exited THEN v ELSE F(v))

peek(st) == IF st.toks = << >> THEN END ELSE Head(st.toks)

next(st) ==
    IF st.toks = << >> THEN st
    ELSE [st EXCEPT !.toks = Tail(@), !.consumed = @ + 1]

consume(st, expected) ==
    IF peek(st) \in expected THEN next(st)
    ELSE exit(error(st, "Unexpected token"))

\* constant_expression(), for a constant that is a single number token:
\* val.type and val.imm.i (the low bits of 1.5 are zero).
constant_expression(st) ==
    IF peek(st) \in Numbers
    THEN [next(st) EXCEPT !.val =
            [type |-> IF peek(st) = "1.5" THEN DOUBLE ELSE INT,
             i |-> NumberValue[peek(st)]]]
    ELSE exit(error(st, "Unexpected token"))

\* sym_add(&ns_ident, name, type, symtype, LINK_NONE).
sym_add(st, name, type, symtype) ==
    [st EXCEPT !.ns_ident =
        Append(@, [name |-> name, type |-> type, symtype |-> symtype,
                   enum_value |-> 0])]

Symbol(ns, name) == CHOOSE i \in 1..Len(ns) : ns[i].name = name
Bound(ns, name) == \E i \in 1..Len(ns) : ns[i].name = name

\* pointer(base), base and the result in st.type.
RECURSIVE pointer_qualifiers(_)
pointer_qualifiers(st) ==
    IF peek(st) \in {"const", "volatile"}
    THEN Then(IF {peek(st)} \cap st.types[st.type].qualifier # {}
              THEN error(st, "Duplicate type qualifier")
              ELSE st,
              LAMBDA s1 :
                 pointer_qualifiers(
                     next([s1 EXCEPT !.types[s1.type].qualifier = @ \cup {peek(s1)}])))
    ELSE st

pointer(st) ==
    Then([st EXCEPT !.types = type_init_pointer(st.types, st.type),
                    !.type = Len(st.types) + 1],
         LAMBDA s1 : Run(consume(s1, {"*"}), pointer_qualifiers))

\* enumerator_list: one turn of its do-while loop, and the turns after it.
RECURSIVE enumerators(_)
enumerators(st) ==
    LET name == peek(st)
    IN Run(consume(st, Identifiers), LAMBDA s1 :
       Run(IF peek(s1) = "="
           THEN Run(consume(s1, {"="}), LAMBDA s2 :
                Run(constant_expression(s2), LAMBDA s3 :
                Then(IF ~is_integer(s3.types, s3.val.type)
                     THEN error(s3, "Implicit conversion from non-integer type in enum")
                     ELSE s3,
                     LAMBDA s4 : [s4 EXCEPT !.enum_value = s4.val.i])))
           ELSE s1,
           LAMBDA s5 :
       Then(sym_add(s5, name, INT, "SYM_ENUM_VALUE"), LAMBDA s6 :
       Then([s6 EXCEPT !.ns_ident[Len(s6.ns_ident)].enum_value = s6.enum_value,
                       !.enum_value = @ + 1],
            LAMBDA s7 :
               IF peek(s7) # "," THEN s7
               ELSE Run(consume(s7, {","}), LAMBDA s8 :
                        IF peek(s8) # "}" THEN enumerators(s8) ELSE s8)))))

enumerator_list(st) ==
    Run(consume([st EXCEPT !.enum_value = 0], {"{"}), LAMBDA s1 :
    Run(enumerators(s1), LAMBDA s2 : consume(s2, {"}"})))

\* enum_declaration(); the type returned is left in st.type.
enum_declaration(st) ==
    Then([st EXCEPT !.types = Append(@, Typetree("T_SIGNED", 4, Q_NONE, NULL)),
                    !.type = Len(st.types) + 1],
         LAMBDA s0 :
    Run(consume(s0, {"enum"}), LAMBDA s1 :
        IF peek(s1) \in Identifiers
        THEN LET name == peek(s1)
             IN Run(consume(s1, Identifiers), LAMBDA s2 :
                Run(IF ~Bound(s2.ns_tag, name)
                    THEN [s2 EXCEPT !.ns_tag =
                            Append(@, [name |-> name, obj |-> s2.type, enum_value |-> 0])]
                    ELSE IF ~is_integer(s2.types, sym_lookup(s2.ns_tag, name))
                    THEN exit(error(s2, "Tag was previously defined as aggregate type"))
                    ELSE s2,
                    LAMBDA s3 :
                IF peek(s3) = "{"
                THEN Then(IF s3.ns_tag[Symbol(s3.ns_tag, name)].enum_value # 0
                          THEN error(s3, "Redefiniton of enum")
                          ELSE s3,
                          LAMBDA s4 :
                     Run(enumerator_list(s4), LAMBDA s5 :
                        [s5 EXCEPT !.ns_tag[Symbol(s5.ns_tag, name)].enum_value = 1]))
                ELSE s3))
        ELSE enumerator_list(s1)))

\* get_basic_type_from_specifier(spec); INVALID for the default case, where
\* the function reports the error and exits.
INVALID == Typetree("", 0, Q_NONE, NULL)
get_basic_type_from_specifier(spec) ==
    CASE spec = 1 -> basic_type__void
      [] spec \in {2, 18} -> basic_type__char
      [] spec = 34 -> basic_type__unsigned_char
      [] spec \in {4, 20, 12, 28} -> basic_type__short
      [] spec \in {36, 44} -> basic_type__unsigned_short
      [] spec \in {8, 16, 24} -> basic_type__int
      [] spec \in {32, 40} -> basic_type__unsigned_int
      [] spec \in {64, 80, 72, 88, 192, 208, 216} -> basic_type__long
      [] spec \in {96, 104, 224, 232} -> basic_type__unsigned_long
      [] spec = 256 -> basic_type__float
      [] spec \in {512, 576} -> basic_type__double
      [] OTHER -> INVALID

\* The bit of each specifier keyword but long.
SpecifierBits ==
    [void |-> 1, char |-> 2, short |-> 4, int |-> 8, signed |-> 16,
     unsigned |-> 32, float |-> 256, double |-> 512]

StorageClasses == {"auto", "register", "static", "extern", "typedef"}

\* spec & d, for a single bit d.
has(spec, d) == (spec \div d) % 2 = 1

set_specifier(st, d) ==
    Then(IF has(st.spec, d) THEN error(st, "Duplicate type specifier") ELSE st,
         LAMBDA s1 : [next(s1) EXCEPT !.spec = BitOr(@, d)])

set_qualifier(st, d) ==
    Then(IF st.qual \cap d # {} THEN error(st, "Duplicate type qualifier") ELSE st,
         LAMBDA s1 : [next(s1) EXCEPT !.qual = @ \cup d])

set_storage_class(st, t) ==
    Then(IF st.stc # "$" THEN error(st, "Multiple storage class specifiers") ELSE st,
         LAMBDA s1 : [next(s1) EXCEPT !.stc = t])

\* declaration_specifiers(&stc): one turn of its do-while loop, and the
\* turns after it.
RECURSIVE specifiers(_)
RECURSIVE struct_or_union_declaration(_)
specifiers(st) ==
    LET tok == peek(st)
    IN Run(CASE tok \in DOMAIN SpecifierBits -> set_specifier(st, SpecifierBits[tok])
             [] tok = "long" ->
                  set_specifier(st, IF has(st.spec, 64) THEN 128 ELSE 64)
             [] tok = "const" -> set_qualifier(st, Q_CONST)
             [] tok = "volatile" -> set_qualifier(st, Q_VOLATILE)
             [] tok \in Identifiers ->
                  IF /\ Bound(st.ns_ident, tok)
                     /\ st.ns_ident[Symbol(st.ns_ident, tok)].symtype = "SYM_TYPEDEF"
                     /\ st.type = NULL
                  THEN Run(consume(st, Identifiers), LAMBDA s1 :
                          [s1 EXCEPT
                              !.types = Append(@,
                                  s1.types[s1.ns_ident[Symbol(s1.ns_ident, tok)].type]),
                              !.type = Len(s1.types) + 1])
                  ELSE [st EXCEPT !.done = TRUE]
             [] tok \in {"struct", "union"} ->
                  IF st.type = NULL
                  THEN struct_or_union_declaration(st)
                  ELSE [st EXCEPT !.done = TRUE]
             [] tok = "enum" ->
                  IF st.type = NULL THEN enum_declaration(st)
                  ELSE [st EXCEPT !.done = TRUE]
             [] tok \in StorageClasses -> set_storage_class(st, tok)
             [] OTHER -> [st EXCEPT !.done = TRUE],
           LAMBDA s2 :
              IF s2.type # NULL /\ s2.spec # 0
              THEN exit(error(s2, "Invalid combination of declaration specifiers"))
              ELSE IF s2.done THEN s2
              ELSE specifiers(s2))

parse_declaration_specifiers(st) ==
    Run(specifiers([st EXCEPT !.spec = 0, !.qual = Q_NONE, !.type = NULL,
                              !.stc = "$", !.done = FALSE]),
        LAMBDA s1 :
    Run(IF s1.type # NULL
        THEN (IF s1.qual \cap s1.types[s1.type].qualifier # {}
              THEN error(s1, "Duplicate type qualifier")
              ELSE s1)
        ELSE IF s1.spec # 0
        THEN Then([s1 EXCEPT !.types = type_init(@, "T_STRUCT"),
                             !.type = Len(s1.types) + 1],
                  LAMBDA s2 :
                     IF get_basic_type_from_specifier(s2.spec) = INVALID
                     THEN exit(error(s2, "Invalid type specification"))
                     ELSE [s2 EXCEPT !.types[s2.type] =
                              get_basic_type_from_specifier(s2.spec)])
        ELSE exit(error(s1, "Missing type specifier")),
        LAMBDA s3 : [s3 EXCEPT !.types[s3.type].qualifier = @ \cup s3.qual]))

\* The declarator routines call each other.
RECURSIVE parse_declarator(_)
RECURSIVE parameters(_, _)

\* A read through a null pointer: size_of(base) and tail->next when the
\* declarator in parentheses was given no base.
crash(st) == [st EXCEPT !.exited = TRUE, !.crashed = TRUE]

\* direct_declarator_array(base), base and the result in st.type.
RECURSIVE direct_declarator_array(_)
direct_declarator_array(st) ==
    IF peek(st) = "["
    THEN Run(consume(st, {"["}), LAMBDA s1 :
         Run(IF peek(s1) # "]"
             THEN Run(constant_expression(s1), LAMBDA s2 :
                     IF ~is_integer(s2.types, s2.val.type) \/ s2.val.i < 1
                     THEN exit(error(s2, "Array dimension must be a natural number"))
                     ELSE [s2 EXCEPT !.length = s2.val.i])
             ELSE [s1 EXCEPT !.length = 0],
             LAMBDA s3 :
         Then(s3.length, LAMBDA length :
         Run(consume(s3, {"]"}), LAMBDA s4 :
         Run(direct_declarator_array(s4), LAMBDA s5 :
             IF s5.type = NULL THEN crash(s5)
             ELSE IF size_of(s5.types, s5.type) = 0
             THEN exit(error(s5, "Array has incomplete element type"))
             ELSE [s5 EXCEPT !.types = type_init_array(@, s5.type, length),
                             !.type = Len(s5.types) + 1])))))
    ELSE st

\* parameter_list(base), base and the result in st.type.
parse_parameter_list(st) ==
    Then([st EXCEPT !.types = Append(@, Typetree("T_FUNCTION", 0, Q_NONE, st.type)),
                    !.type = Len(st.types) + 1],
         LAMBDA s1 :
            Run(parameters(s1, s1.type), LAMBDA s2 :
                [s2 EXCEPT !.type = s1.type, !.name = st.name]))

\* parameter_list: one turn of its while loop, and the turns after it.
parameters(st, func) ==
    IF peek(st) = ")" THEN st
    ELSE Run(parse_declaration_specifiers(st), LAMBDA s1 :
         Run(parse_declarator([s1 EXCEPT !.name = ""]), LAMBDA s2 :
            IF is_void(s2.types, s2.type)
            THEN (IF nmembers(s2.types, func) # 0
                  THEN error(s2, "Incomplete type in parameter list")
                  ELSE s2)
            ELSE Then([s2 EXCEPT !.types = type_add_member(@, func, s2.name, s2.type)],
                      LAMBDA s3 :
                 IF peek(s3) # "," THEN s3
                 ELSE Run(consume(s3, {","}), LAMBDA s4 :
                      IF peek(s4) = ")"
                      THEN exit(error(s4, "Unexpected trailing comma in parameter list"))
                      ELSE IF peek(s4) = "..."
                      THEN Run(consume(s4, {"..."}), LAMBDA s5 :
                              [s5 EXCEPT !.types = type_add_member(@, func, "...", NULL)])
                      ELSE parameters(s4, func)))))

\* direct_declarator: the while loop over the array and function suffixes,
\* the type in st.type.
RECURSIVE suffixes(_, _, _, _)
suffixes(st, base, head, tail) ==
    IF peek(st) \in {"[", "("}
    THEN Run(IF peek(st) = "["
             THEN direct_declarator_array([st EXCEPT !.type = base])
             ELSE Run(consume(st, {"("}), LAMBDA s1 :
                  Run(parse_parameter_list([s1 EXCEPT !.type = base]), LAMBDA s2 :
                      consume(s2, {")"}))),
             LAMBDA s3 :
         Then(IF tail # NULL
              THEN [s3 EXCEPT !.types[tail].next = s3.type, !.type = head]
              ELSE s3,
              LAMBDA s4 : suffixes(s4, s4.type, head, tail)))
    ELSE st

\* The last type of the chain that starts at t.
RECURSIVE last_next(_, _)
last_next(tree, t) == IF tree[t].next # NULL THEN last_next(tree, tree[t].next) ELSE t

\* direct_declarator(base, &name), base and the result in st.type.
direct_declarator(st) ==
    Then(st.type, LAMBDA base :
        CASE peek(st) \in Identifiers ->
                Then(peek(st), LAMBDA ident :
                Run(consume(st, Identifiers), LAMBDA s1 :
                    suffixes([s1 EXCEPT !.name = ident], base, NULL, NULL)))
          [] peek(st) = "(" ->
                Run(consume(st, {"("}), LAMBDA s1 :
                Run(parse_declarator([s1 EXCEPT !.type = NULL]), LAMBDA s2 :
                    IF s2.type = NULL THEN crash(s2)
                    ELSE Run(consume(s2, {")"}), LAMBDA s3 :
                            suffixes(s3, base, s2.type, last_next(s2.types, s2.type)))))
          [] OTHER -> suffixes(st, base, NULL, NULL))

\* declarator: the while loop over the pointers.
RECURSIVE pointers(_)
pointers(st) == IF peek(st) = "*" THEN Run(pointer(st), pointers) ELSE st

\* declarator(base, &name), base and the result in st.type.
parse_declarator(st) == Run(pointers(st), direct_declarator)

\* The token streams: a specifier list, an enum specifier with its
\* enumerators, a pointer with its qualifiers; each before a declarator x.
SpecifierTokens == DOMAIN SpecifierBits \cup {"long", "const", "volatile", "static"}
SpecifierLists == UNION {[1..n -> SpecifierTokens] : n \in 0..MaxSpecifiers}
SpecifierStreams == {s \o <<"x">> : s \in SpecifierLists}
Initialisers == {<< >>, <<"=", "1">>, <<"=", "1.5">>}
EnumeratorLists ==
    {<<"A">> \o i1 : i1 \in Initialisers}
    \cup {<<"A">> \o i1 \o <<",", "B">> \o i2 : i1 \in Initialisers, i2 \in Initialisers}
EnumStreams ==
    {pre \o <<"enum">> \o tag \o <<"{">> \o l \o <<"}">> \o post \o <<"x">> :
        pre \in {<< >>, <<"const">>}, tag \in {<< >>, <<"E">>},
        l \in EnumeratorLists, post \in {<< >>, <<"int">>, <<"const">>}}
    \cup {<<"enum", "E", "x">>}
PointerStreams ==
    {<<"*">> \o q \o <<"x">> :
        q \in UNION {[1..n -> {"const", "volatile"}] : n \in 0..MaxSpecifiers}}

\* The declarators of x with up to n levels of parentheses, each level with
\* an optional pointer and an optional array or function suffix.
MaxNesting == 2
Stars == {<< >>, <<"*">>}
Suffixes == {<< >>, <<"[", "1", "]">>, <<"[", "]">>, <<"(", "int", ")">>, <<"(", ")">>}
RECURSIVE DeclaratorsOf(_)
DeclaratorsOf(n) ==
    {p \o i \o s :
        p \in Stars,
        i \in {<<"x">>} \cup (IF n = 0 THEN {}
                             ELSE {<<"(">> \o d \o <<")">> : d \in DeclaratorsOf(n - 1)}),
        s \in Suffixes}
DeclaratorStreams == {d \o <<";">> : d \in DeclaratorsOf(MaxNesting)}

\* The tag namespace at the start: empty, E a defined enum, E a struct.
TagStates == {"none", "enum", "struct"}

InitDecl ==
    /\ \E tags \in TagStates :
        /\ types = CASE tags = "none" -> BasicRegistry
                     [] tags = "enum" -> Append(BasicRegistry, basic_type__int)
                     [] tags = "struct" -> type_init(BasicRegistry, "T_STRUCT")
        /\ ns_tag = IF tags = "none" THEN << >>
                    ELSE << [name |-> "E", obj |-> NBasic + 1,
                             enum_value |-> IF tags = "enum" THEN 1 ELSE 0] >>
        /\ \/ /\ fn_name = "declaration_specifiers"
              /\ tags = "none"
              /\ tokens \in SpecifierStreams
           \/ /\ fn_name = "declaration_specifiers"
              /\ tokens \in EnumStreams
           \/ /\ fn_name = "pointer"
              /\ tags = "none"
              /\ tokens \in PointerStreams
           \/ /\ fn_name = "declarator"
              /\ tags = "none"
              /\ tokens \in DeclaratorStreams
    /\ fn_arg = tokens
    /\ fn_result = NULL
    /\ ns_ident = << >>
    /\ diagnostics = << >>
    /\ statements = << >>
    /\ status = "run"
    /\ open = << >>
    /\ pending = NULL
    /\ unsound = {}
    /\ ndecls = 0
    /\ args = << >>
    /\ ret = VOID
    /\ params = << >>
    /\ res = << >>
    /\ next_integer_reg = 0
    /\ int_regs = << >>
    /\ pc = "idle"
    /\ EncIdle
    /\ defs = << >>
    /\ fallback = << >>
    /\ last_def_returned = << >>
    /\ heap = << >>
    /\ retval = << >>
    /\ log = [called |-> FALSE, consumed |-> 0]

\* The parser state at the call of a routine, base being its type argument.
Entry(base) ==
    [toks |-> tokens, consumed |-> 0, types |-> types, ns_tag |-> ns_tag,
     ns_ident |-> ns_ident, diagnostics |-> diagnostics, exited |-> FALSE,
     spec |-> 0, qual |-> Q_NONE, type |-> base, stc |-> "$", done |-> FALSE,
     enum_value |-> 0, val |-> NULL, name |-> "", length |-> 0,
     crashed |-> FALSE, aborted |-> FALSE, statements |-> statements,
     i |-> 0]

\* The state the routine leaves, and what it returned.
Leave(out) ==
    /\ tokens' = out.toks
    /\ types' = out.types
    /\ ns_tag' = out.ns_tag
    /\ ns_ident' = out.ns_ident
    /\ diagnostics' = out.diagnostics
    /\ statements' = out.statements
    /\ status' = IF out.crashed THEN "crash"
                  ELSE IF out.aborted THEN "abort"
                  ELSE IF out.exited THEN "exit" ELSE "run"
    /\ fn_result' = out.type
    /\ log' = [called |-> TRUE, consumed |-> out.consumed]
    /\ UNCHANGED <<open, pending, unsound, ndecls, abi, enc, fn_name, fn_arg>>
    /\ UNCHANGED <<defs, fallback, last_def_returned, heap, retval>>

DeclarationSpecifiers ==
    /\ fn_name = "declaration_specifiers"
    /\ ~log.called
    /\ \E out \in {parse_declaration_specifiers(Entry(NULL))} : Leave(out)

Pointer ==
    /\ fn_name = "pointer"
    /\ ~log.called
    /\ \E out \in {pointer(Entry(INT))} : Leave(out)

Declarator ==
    /\ fn_name = "declarator"
    /\ ~log.called
    /\ \E out \in {parse_declarator(Entry(INT))} : Leave(out)

NextDecl ==
    \/ DeclarationSpecifiers
    \/ Pointer
    \/ Declarator

SpecDecl == InitDecl /\ [][NextDecl]_vars

\* The tokens, symbols and types that followed the first diagnostic.
Reported == diagnostics # << >>
AfterFirst ==
    [tokens |-> log.consumed - diagnostics[1].consumed,
     symbols |-> Len(ns_ident) + Len(ns_tag) - diagnostics[1].symbols,
     types |-> Len(types) - diagnostics[1].types]

\* C23: each type error (an invalid combination of specifiers, a tag reused
\* with a different kind, a non-integer enum initializer, a duplicate
\* qualifier or specifier, a redefinition) is fatal after one diagnostic:
\* once it is reported the parser consumes no further token and adds no
\* further symbol or type.
C23_FatalAfterOneDiagnostic ==
    (log.called /\ Reported) =>
        /\ Len(diagnostics) = 1
        /\ status = "exit"
        /\ AfterFirst = [tokens |-> 0, symbols |-> 0, types |-> 0]

\* The errors that are followed by exit(1) do stop the parser.
C23_ExitIsFatal ==
    (log.called /\ status = "exit") =>
        /\ diagnostics[Len(diagnostics)].consumed = log.consumed
        /\ diagnostics[Len(diagnostics)].types = Len(types)
        /\ diagnostics[Len(diagnostics)].symbols = Len(ns_ident) + Len(ns_tag)

\* const const int x: the duplicate is reported, and the parser goes on.
C23_DuplicateQualifier ==
    ~ /\ fn_arg = <<"const", "const", "int", "x">>
      /\ log.called
      /\ status = "run"
      /\ Len(diagnostics) = 1
      /\ AfterFirst.tokens = 2
      /\ AfterFirst.types = 1

\* enum { A = 1.5 } x: the initializer is reported, and A is declared.
C23_NonIntegerEnumerator ==
    ~ /\ fn_arg = <<"enum", "{", "A", "=", "1.5", "}", "x">>
      /\ log.called
      /\ status = "run"
      /\ Len(diagnostics) = 1
      /\ AfterFirst = [tokens |-> 1, symbols |-> 1, types |-> 0]
      /\ tokens = <<"x">>

\* A specifier list of short, long, signed and unsigned that was accepted,
\* and the parse of the same list with int added.
Resolved == log.called /\ status = "run" /\ diagnostics = << >>
SizeOrSign ==
    /\ fn_name = "declaration_specifiers"
    /\ Len(fn_arg) >= 2
    /\ \A i \in 1..(Len(fn_arg) - 1) :
          fn_arg[i] \in {"short", "long", "signed", "unsigned"}
WithInt ==
    parse_declaration_specifiers(
        [Entry(NULL) EXCEPT
            !.toks = SubSeq(fn_arg, 1, Len(fn_arg) - 1) \o <<"int", "x">>,
            !.types = BasicRegistry])
SameWithInt ==
    /\ ~WithInt.exited
    /\ WithInt.diagnostics = << >>
    /\ WithInt.types[WithInt.type] = types[fn_result]

\* C30: for every set of basic type specifiers accepted by
\* declaration_specifiers that contains short, long, long long, signed or
\* unsigned and none of void, char, float, double and int, the same set with
\* int added is also accepted and resolves to the same basic type.
C30_IntIsOptional == (SizeOrSign /\ Resolved) => SameWithInt

\* Every such list but long long.
C30_ButLongLong ==
    (SizeOrSign /\ Resolved /\ fn_arg # <<"long", "long", "x">>) => SameWithInt

\* Where the chain of pointer, array and function types from t ends:
\* a type, NULL, or DIVERGES when the chain does not end within n links.
RECURSIVE ChainEnd(_, _, _)
ChainEnd(tree, t, n) ==
    IF t = NULL THEN NULL
    ELSE IF tree[t].type \notin {"T_POINTER", "T_ARRAY", "T_FUNCTION"} THEN t
    ELSE IF n = 0 THEN DIVERGES
    ELSE ChainEnd(tree, tree[t].next, n - 1)

DeclaratorReturned == fn_name = "declarator" /\ log.called /\ status = "run"

\* C26: for every declarator, the type returned by declarator(base, name)
\* is a chain of pointer, array and function types linked by next whose
\* tail is base, also for a parenthesized inner declarator as in T (*p)(A),
\* T (*p)[N] and T (*p).
C26_TailIsBase == DeclaratorReturned => ChainEnd(types, fn_result, Len(types)) = INT

\* int (*x): a pointer whose next is NULL.
C26_ParenthesizedPointer ==
    ~ /\ DeclaratorReturned
      /\ fn_arg = <<"(", "*", "x", ")", ";">>
      /\ types[fn_result].type = "T_POINTER"
      /\ types[fn_result].next = NULL

\* The tail is base when there are no parentheses, and when the outermost
\* parentheses are followed by a suffix.
C26_SplicedBySuffix ==
    (DeclaratorReturned /\ fn_arg[Len(fn_arg) - 1] # ")"
     /\ (fn_arg[Len(fn_arg) - 1] = "]" => fn_arg[Len(fn_arg) - 2] # ")"))
        => ChainEnd(types, fn_result, Len(types)) = INT

\* ------------------------------------------------------------------------
\* Initializers (declaration.c): zero_initialize, object_initializer and
\* initializer. A target is a type and an offset into the symbol that is
\* initialized; the assignments go to the current block.
\* ------------------------------------------------------------------------
MaxElements == 3     \* elements of the array that is initialized

\* A failed assertion.
abort(st) == [st EXCEPT !.exited = TRUE, !.aborted = TRUE]

\* var_zero(size): the immediate 0 of the integer type of that size.
var_zero(size) ==
    [kind |-> "IMMEDIATE",
     type |-> CASE size = 1 -> CHAR [] size = 2 -> SHORT [] size = 4 -> INT
                [] OTHER -> LONG,
     i |-> 0]

\* eval_assign(block, target, var), target a DIRECT reference.
eval_assign(st, type, offset, var) ==
    [st EXCEPT !.statements =
        Append(@, [offset |-> offset, type |-> type, var |-> var])]

RECURSIVE zero_initialize(_, _, _)

\* zero_initialize: the for loop over the members of a struct or union.
RECURSIVE zero_members(_, _, _, _)
zero_members(st, type, offset, i) ==
    IF i > nmembers(st.types, type) THEN st
    ELSE Run(zero_initialize(st, get_member(st.types, type, i).type,
                             offset + get_member(st.types, type, i).offset),
             LAMBDA s1 : zero_members(s1, type, offset, i + 1))

\* zero_initialize: the for loop over the elements of an array.
RECURSIVE zero_elements(_, _, _, _)
zero_elements(st, type, offset, i) ==
    IF i >= st.types[type].size \div st.types[st.types[type].next].size THEN st
    ELSE Run(zero_initialize(st, st.types[type].next,
                             offset + i * st.types[st.types[type].next].size),
             LAMBDA s1 : zero_elements(s1, type, offset, i + 1))

\* zero_initialize(block, target). The division by the size field of a
\* tagged element, which is zero, stops the process.
zero_initialize(st, type, offset) ==
    CASE is_struct_or_union(st.types, type) ->
            zero_members(st, unwrapped(st.types, type), offset, 1)
      [] is_array(st.types, type) ->
            IF st.types[type].size = 0 THEN abort(st)
            ELSE IF ~(\/ is_struct(st.types, st.types[type].next)
                      \/ st.types[st.types[type].next].next = NULL)
            THEN abort(st)
            ELSE IF st.types[st.types[type].next].size = 0 THEN crash(st)
            ELSE zero_elements(st, type, offset, 0)
      [] is_pointer(st.types, type) ->
            Then([st EXCEPT !.types = type_init_pointer(@, VOID)], LAMBDA s1 :
                eval_assign(s1, type, offset,
                            [var_zero(8) EXCEPT !.type = Len(s1.types)]))
      [] is_integer(st.types, type) ->
            eval_assign(st, type, offset, var_zero(st.types[type].size))
      [] OTHER -> exit(error(st, "Invalid type to zero-initialize"))

\* assignment_expression(block), for an expression that is one number: the
\* immediate left in block->expr.
assignment_expression(st) ==
    Run(constant_expression(st), LAMBDA s1 :
        [s1 EXCEPT !.val = [kind |-> "IMMEDIATE", type |-> s1.val.type, i |-> s1.val.i]])

RECURSIVE object_initializer(_, _, _, _)

\* initializer(block, target), target.symbol being the symbol of type symbol.
initializer(st, type, offset, symbol) ==
    Then(unwrapped(st.types, type), LAMBDA target :
        IF peek(st) = "{" THEN object_initializer(st, target, offset, symbol)
        ELSE Run(assignment_expression(st), LAMBDA s1 :
                 IF s1.types[target].size = 0 THEN abort(s1)
                 ELSE eval_assign(s1, target, offset, s1.val)))

\* object_initializer: the for loop of the T_STRUCT case; the index reached
\* is left in st.i (members are counted from 1).
RECURSIVE struct_members(_, _, _, _, _)
struct_members(st, type, filled, symbol, i) ==
    IF i > nmembers(st.types, type) THEN [st EXCEPT !.i = i]
    ELSE Run(initializer(st, get_member(st.types, type, i).type,
                         filled + get_member(st.types, type, i).offset, symbol),
             LAMBDA s1 :
                IF peek(s1) = ","
                THEN Run(consume(s1, {","}), LAMBDA s2 :
                        IF peek(s2) = "}" THEN [s2 EXCEPT !.i = i]
                        ELSE struct_members(s2, type, filled, symbol, i + 1))
                ELSE [s1 EXCEPT !.i = i])

\* The T_STRUCT case: while (++i < nmembers(type)) zero_initialize.
RECURSIVE struct_remainder(_, _, _, _)
struct_remainder(st, type, filled, i) ==
    IF i + 1 > nmembers(st.types, type) THEN st
    ELSE Run(zero_initialize(st, get_member(st.types, type, i + 1).type,
                             filled + get_member(st.types, type, i + 1).offset),
             LAMBDA s1 : struct_remainder(s1, type, filled, i + 1))

\* The for loop of the T_ARRAY case; the index reached is left in st.i.
RECURSIVE array_elements(_, _, _, _, _)
array_elements(st, type, filled, symbol, i) ==
    IF ~(\/ st.types[type].size = 0
         \/ i < st.types[type].size \div size_of(st.types, st.types[type].next))
    THEN [st EXCEPT !.i = i]
    ELSE Run(initializer(st, st.types[type].next,
                         filled + i * size_of(st.types, st.types[type].next), symbol),
             LAMBDA s1 :
                IF peek(s1) = ","
                THEN Run(consume(s1, {","}), LAMBDA s2 :
                        IF peek(s2) = "}" THEN [s2 EXCEPT !.i = i]
                        ELSE array_elements(s2, type, filled, symbol, i + 1))
                ELSE [s1 EXCEPT !.i = i])

\* The T_ARRAY case: while (++i < size / size_of(next)) zero_initialize.
RECURSIVE array_remainder(_, _, _, _)
array_remainder(st, type, filled, i) ==
    IF ~(i + 1 < st.types[type].size \div size_of(st.types, st.types[type].next))
    THEN st
    ELSE Run(zero_initialize(st, st.types[type].next,
                             filled + (i + 1) * size_of(st.types, st.types[type].next)),
             LAMBDA s1 : array_remainder(s1, type, filled, i + 1))

\* The T_ARRAY case: the incomplete array gets its size from the index of
\* the last initializer.
complete_array_one_short(st, type, symbol) ==
    [st EXCEPT !.types[symbol].size = st.i * size_of(st.types, st.types[type].next)]

complete_array(st, type, symbol) ==
    [st EXCEPT !.types[symbol].size = (st.i + 1) * size_of(st.types, st.types[type].next)]

\* object_initializer(block, target).
object_initializer(st, type, filled, symbol) ==
    IF is_tagged(st.types, type) THEN abort(st)
    ELSE
    Run(consume(st, {"{"}), LAMBDA s1 :
    Run(CASE is_union(s1.types, type) ->
               Run(IF size_of(s1.types, get_member(s1.types, type, 1).type)
                        < s1.types[type].size
                   THEN Then([s1 EXCEPT !.types =
                                 IF s1.types[type].size % 8 # 0
                                 THEN type_init_array(@, CHAR, s1.types[type].size)
                                 ELSE type_init_array(@, LONG, s1.types[type].size \div 8)],
                             LAMBDA s2 : zero_initialize(s2, Len(s2.types), filled))
                   ELSE s1,
                   LAMBDA s3 :
               Run(initializer(s3, get_member(s3.types, type, 1).type, filled, symbol),
                   LAMBDA s4 :
                      IF peek(s4) # "}"
                      THEN exit(error(s4, "Excess elements in union initializer"))
                      ELSE s4))
          [] is_struct(s1.types, type) ->
               Run(struct_members(s1, type, filled, symbol, 1), LAMBDA s2 :
                   struct_remainder(s2, type, filled, s2.i))
          [] is_array(s1.types, type) ->
               Run(array_elements(s1, type, filled, symbol, 0), LAMBDA s2 :
                   IF s2.types[type].size = 0
                   THEN (IF s2.types[symbol].size # 0 \/ ~is_array(s2.types, symbol)
                         THEN abort(s2)
                         ELSE complete_array(s2, type, symbol))
                   ELSE array_remainder(s2, type, filled, s2.i))
          [] OTHER ->
               exit(error(s1, "Block initializer only apply to aggregate or union type")),
        LAMBDA s5 : consume(s5, {"}"})))

\* The types that are initialized: those of the registry below, and one
\* array of them.
R_q == type_tagged_copy(FnRegistry, III, "Q")
TQ == Len(R_q)                      \* struct Q, a tagged copy of III
R_ps == struct_declaration(R_q, "T_STRUCT", <<PTR, INT>>)
PS == Len(R_ps)                     \* struct { char *a; int b; }
R_uic == struct_declaration(R_ps, "T_UNION", <<INT, CHAR>>)
UIC == Len(R_uic)                   \* union { int a; char b; }
InitRegistry == R_uic

ZeroElements == {CHAR, USHORT, INT, LONG, PTR, CHAR3, III, CA, NEST, TQ, PS, UIC, DOUBLE}
InitElements == {CHAR, INT, LONG}
Digits == <<"1", "2", "3", "4", "5">>
Items(k) == [j \in 1..(2 * k - 1) |-> IF j % 2 = 1 THEN Digits[(j + 1) \div 2] ELSE ","]
InitializerLists ==
    {<<"{">> \o Items(k) \o comma \o <<"}", ";">> :
        k \in 1..(MaxElements + 1), comma \in {<< >>, <<",">>}}

InitInitializer ==
    /\ \/ /\ fn_name = "zero_initialize"
          /\ \E element \in ZeroElements, count \in 1..MaxElements :
                /\ types = type_init_array(InitRegistry, element, count)
                /\ fn_arg \in {[symbol |-> t, count |-> count] : t \in {element, Len(types)}}
          /\ tokens = <<";">>
       \/ /\ fn_name = "object_initializer"
          /\ \E element \in InitElements, count \in 0..MaxElements :
                /\ types = type_init_array(InitRegistry, element, count)
                /\ fn_arg = [symbol |-> Len(types), count |-> count]
          /\ tokens \in InitializerLists
    /\ fn_result = NULL
    /\ ns_tag = << >>
    /\ ns_ident = << >>
    /\ diagnostics = << >>
    /\ statements = << >>
    /\ status = "run"
    /\ open = << >>
    /\ pending = NULL
    /\ unsound = {}
    /\ ndecls = 0
    /\ args = << >>
    /\ ret = VOID
    /\ params = << >>
    /\ res = << >>
    /\ next_integer_reg = 0
    /\ int_regs = << >>
    /\ pc = "idle"
    /\ EncIdle
    /\ defs = << >>
    /\ fallback = << >>
    /\ last_def_returned = << >>
    /\ heap = << >>
    /\ retval = << >>
    /\ log = [called |-> FALSE, consumed |-> 0, entry |-> tokens]

\* The state a routine without a result leaves.
LeaveVoid(out) ==
    /\ tokens' = out.toks
    /\ types' = out.types
    /\ diagnostics' = out.diagnostics
    /\ statements' = out.statements
    /\ status' = IF out.crashed THEN "crash"
                  ELSE IF out.aborted THEN "abort"
                  ELSE IF out.exited THEN "exit" ELSE "run"
    /\ log' = [log EXCEPT !.called = TRUE, !.consumed = out.consumed]
    /\ UNCHANGED <<ns_tag, ns_ident, open, pending, unsound, ndecls, abi, enc, fnv>>
    /\ UNCHANGED <<defs, fallback, last_def_returned, heap, retval>>

ZeroInitialize ==
    /\ fn_name = "zero_initialize"
    /\ ~log.called
    /\ \E out \in {zero_initialize(Entry(NULL), fn_arg.symbol, 0)} : LeaveVoid(out)

ObjectInitializer ==
    /\ fn_name = "object_initializer"
    /\ ~log.called
    /\ \E out \in {object_initializer(Entry(NULL), fn_arg.symbol, 0, fn_arg.symbol)} :
          LeaveVoid(out)

NextInitializer ==
    \/ ZeroInitialize
    \/ ObjectInitializer

SpecInit == InitInitializer /\ [][NextInitializer]_vars

\* The initializers of the list, the element of the array, and the
\* assignments as offset, width and value.
Initialized == fn_name = "object_initializer" /\ log.called
Given == Cardinality({j \in DOMAIN log.entry : log.entry[j] \in Numbers})
ElementSize == size_of(types, types[fn_arg.symbol].next)
Stores ==
    [j \in DOMAIN statements |->
        [offset |-> statements[j].offset,
         size |-> size_of(types, statements[j].type),
         value |-> statements[j].var.i]]
StoresOf(k, n) ==
    [j \in 1..n |-> [offset |-> (j - 1) * ElementSize, size |-> ElementSize,
                     value |-> IF j <= k THEN j ELSE 0]]

\* C24: a brace initializer for an array stores its k initializers at the
\* element indices 0, 1, ..., k-1 in order; for an incomplete array it
\* completes the symbol's type to k times the element size, for a complete
\* array of N elements with k <= N it zero-fills every element from index k
\* to N-1, and with k > N it is an error.
C24_ArrayInitializer ==
    Initialized =>
        IF fn_arg.count = 0
        THEN /\ status = "run"
             /\ types[fn_arg.symbol].size = Given * ElementSize
             /\ Stores = StoresOf(Given, Given)
        ELSE IF Given <= fn_arg.count
        THEN /\ status = "run"
             /\ types[fn_arg.symbol].size = fn_arg.count * ElementSize
             /\ Stores = StoresOf(Given, fn_arg.count)
        ELSE /\ status = "exit"
             /\ Len(diagnostics) = 1

\* int a[] = {1,2,3}; yields type int[3], size 12 and three stores at the
\* offsets 0, 4, 8.
C24_Witness ==
    /\ Initialized
    /\ log.entry = <<"{", "1", ",", "2", ",", "3", "}", ";">>
    /\ types[fn_arg.symbol] = Typetree("T_ARRAY", 12, Q_NONE, INT)
    /\ fn_arg.count = 0
    /\ Stores = << [offset |-> 0, size |-> 4, value |-> 1],
                   [offset |-> 4, size |-> 4, value |-> 2],
                   [offset |-> 8, size |-> 4, value |-> 3] >>
    /\ tokens = <<";">>

\* int a[3] = {1}; the two elements that follow are zero-filled.
C24_WitnessZeroFill ==
    /\ Initialized
    /\ fn_arg.count = 3
    /\ Given = 1
    /\ types[fn_arg.symbol].next = INT
    /\ Stores = << [offset |-> 0, size |-> 4, value |-> 1],
                   [offset |-> 4, size |-> 4, value |-> 0],
                   [offset |-> 8, size |-> 4, value |-> 0] >>

\* The leaves of a type in order: the offset and width of every integer or
\* pointer reached through arrays and struct members, unions included.
RECURSIVE LeavesOf(_, _, _)
LeavesOf(tree, t, offset) ==
    LET u == unwrapped(tree, t)
        node == tree[u]
        MembersFrom[j \in 0..Len(node.member)] ==
            IF j = 0 THEN << >>
            ELSE MembersFrom[j - 1]
                    \o LeavesOf(tree, node.member[j].type, offset + node.member[j].offset)
        count == IF size_of(tree, node.next) = 0 THEN 0
                 ELSE node.size \div size_of(tree, node.next)
        ElementsFrom[j \in 0..count] ==
            IF j = 0 THEN << >>
            ELSE ElementsFrom[j - 1]
                    \o LeavesOf(tree, node.next, offset + (j - 1) * size_of(tree, node.next))
    IN  CASE node.type \in {"T_STRUCT", "T_UNION"} -> MembersFrom[Len(node.member)]
          [] node.type = "T_ARRAY" -> ElementsFrom[count]
          [] node.type \in {"T_POINTER", "T_SIGNED", "T_UNSIGNED"} ->
                << [offset |-> offset, size |-> node.size, value |-> 0] >>
          [] OTHER -> << >>

\* Whether a type is made of arrays, structs, unions, pointers and integers of
\* the sizes 1, 2, 4 and 8 only.
RECURSIVE Zeroable(_, _)
Zeroable(tree, t) ==
    LET node == tree[unwrapped(tree, t)]
    IN  CASE node.type \in {"T_STRUCT", "T_UNION"} ->
                \A j \in DOMAIN node.member : Zeroable(tree, node.member[j].type)
          [] node.type = "T_ARRAY" -> Zeroable(tree, node.next)
          [] node.type = "T_POINTER" -> TRUE
          [] node.type \in {"T_SIGNED", "T_UNSIGNED"} -> node.size \in {1, 2, 4, 8}
          [] OTHER -> FALSE

Zeroed == fn_name = "zero_initialize" /\ log.called

\* C25: zero_initialize on a target of any complete object type built from
\* integers, pointers, arrays, structs and unions (tagged or not) terminates
\* and emits exactly one store per scalar leaf, at that leaf's offset within
\* the target: a null-pointer store for a pointer leaf and a zero store of
\* the leaf's width for an integer leaf.
C25_ZeroesEveryLeaf ==
    (Zeroed /\ Zeroable(types, fn_arg.symbol)) =>
        /\ status = "run"
        /\ Stores = LeavesOf(types, fn_arg.symbol, 0)

\* An array of pointers fails the assertion of the array case.
C25_ArrayOfPointers ==
    ~(/\ Zeroed
      /\ types[fn_arg.symbol].type = "T_ARRAY"
      /\ types[fn_arg.symbol].next = PTR
      /\ status = "abort"
      /\ statements = << >>)

\* An array of a tagged struct divides by the size 0 of the tag.
C25_ArrayOfTagged ==
    ~(/\ Zeroed
      /\ types[fn_arg.symbol].type = "T_ARRAY"
      /\ types[fn_arg.symbol].next = TQ
      /\ status = "crash")

\* Integers, pointers, structs and arrays of integers or untagged structs
\* are zeroed leaf by leaf.
C25_ZeroesPlain ==
    (/\ Zeroed
     /\ status = "run") => Stores = LeavesOf(types, fn_arg.symbol, 0)

\* ------------------------------------------------------------------------
\* Scopes (declaration.c): member_declaration_list and declaration. A
\* namespace is its symbols and the marks of its open scopes, its depth the
\* number of marks; the namespace of a member list is a frame of the state.
\* The locals of the routines that are running are the records of st.calls,
\* those of the running one the last.
\* ------------------------------------------------------------------------
MaxMembers == 2

\* push_scope(ns), pop_scope(ns): ns is "ns_ident", "ns_tag" or "ns", the
\* namespace of the member list that is running.
push_scope(st, ns) ==
    IF ns = "ns"
    THEN [st EXCEPT !.frames[Len(st.frames)].marks =
                        Append(@, Len(st.frames[Len(st.frames)].symbols))]
    ELSE [st EXCEPT !.marks[ns] = Append(@, Len(st[ns]))]

pop_scope(st, ns) ==
    IF ns = "ns"
    THEN LET frame == st.frames[Len(st.frames)]
         IN IF frame.marks = << >> THEN st
            ELSE [st EXCEPT !.frames[Len(st.frames)] =
                    [marks |-> SubSeq(frame.marks, 1, Len(frame.marks) - 1),
                     symbols |-> SubSeq(frame.symbols, 1, frame.marks[Len(frame.marks)])]]
    ELSE IF st.marks[ns] = << >> THEN st
    ELSE [st EXCEPT ![ns] = SubSeq(@, 1, st.marks[ns][Len(st.marks[ns])]),
                    !.marks[ns] = SubSeq(@, 1, Len(@) - 1)]

\* current_depth of every namespace.
Depths(st) ==
    [ns_ident |-> Len(st.marks.ns_ident),
     ns_tag |-> Len(st.marks.ns_tag),
     ns |-> [f \in 1..Len(st.frames) |-> Len(st.frames[f].marks)]]

\* The locals of the routine that is running; a routine is called and
\* returns to its caller, which notes the depths at its entry and now.
Local(st) == st.calls[Len(st.calls)]
enter(st, locals) == [st EXCEPT !.calls = Append(@, locals)]
return(st, routine) ==
    [st EXCEPT !.returns = Append(@, [routine |-> routine,
                                      entered |-> Local(st).entered,
                                      left |-> Depths(st)]),
               !.calls = SubSeq(@, 1, Len(@) - 1)]

RECURSIVE member_declarators(_)
RECURSIVE member_declarations(_)

\* member_declaration_list: the member that a declarator has declared.
add_member(st) ==
    IF st.name = ""
    THEN exit(error(st, "Missing name in member declarator"))
    ELSE IF size_of(st.types, st.type) = 0
    THEN exit(error(st, "Field has incomplete type"))
    ELSE [st EXCEPT !.frames[Len(st.frames)].symbols = Append(@, st.name),
                    !.types = type_add_member(@, Local(st).type, st.name, st.type)]

\* member_declaration_list: the end of the inner do-while loop.
more_declarators(st) ==
    Run(IF peek(st) = "," THEN consume(st, {","}) ELSE st, LAMBDA s1 :
        IF peek(s1) # ";" THEN member_declarators(s1) ELSE s1)

\* member_declaration_list: the inner do-while loop over the declarators of
\* one member declaration.
member_declarators(st) ==
    Run(Run(parse_declarator([st EXCEPT !.type = Local(st).decl_base, !.name = ""]),
            add_member),
        more_declarators)

\* member_declaration_list: the end of the outer do-while loop.
more_declarations(st) ==
    Run(consume(st, {";"}), LAMBDA s1 :
        IF peek(s1) # "}" THEN member_declarations(s1) ELSE s1)

decl_base(st) == [st EXCEPT !.calls[Len(st.calls)].decl_base = st.type]

\* member_declaration_list: the outer do-while loop.
member_declarations(st) ==
    Run(Run(Run(parse_declaration_specifiers(st), decl_base), member_declarators),
        more_declarations)

\* struct namespace ns = {0} is a new frame, which ends with the call.
member_namespace(st, type) ==
    push_scope(
        enter([st EXCEPT !.frames = Append(@, [marks |-> << >>, symbols |-> << >>])],
             [type |-> type, decl_base |-> NULL,
              entered |-> [Depths(st) EXCEPT !.ns = Append(@, 0)]]),
        "ns")
member_pop_scope(st) == pop_scope(st, "ns")
member_return(st) ==
    [return(st, "member_declaration_list") EXCEPT
        !.frames = SubSeq(@, 1, Len(@) - 1)]

\* The scope of the member list is left open.
member_declaration_list_unpopped(st, type) ==
    Run(Run(member_namespace(st, type), member_declarations), member_return)

\* member_declaration_list(type).
member_declaration_list(st, type) ==
    Run(Run(Run(member_namespace(st, type), member_declarations), member_pop_scope),
        member_return)

\* struct_or_union_declaration: the tag that follows the keyword.
tag_symbol(st) ==
    IF peek(st) \notin Identifiers THEN st
    ELSE
    Then(peek(st), LAMBDA tag :
    Run(consume(st, Identifiers), LAMBDA s1 :
    Run(IF ~Bound(s1.ns_tag, tag)
        THEN [s1 EXCEPT !.types = type_init(@, Local(s1).kind),
                        !.ns_tag = Append(@, [name |-> tag,
                                              obj |-> Len(s1.types) + 1,
                                              enum_value |-> 0]),
                        !.calls[Len(s1.calls)].type = Len(s1.types) + 1,
                        !.calls[Len(s1.calls)].tag = tag]
        ELSE IF is_integer(s1.types, sym_lookup(s1.ns_tag, tag))
        THEN exit(error(s1, "Tag was previously declared as enum"))
        ELSE IF s1.types[sym_lookup(s1.ns_tag, tag)].type # Local(s1).kind
        THEN exit(error(s1, "Tag was previously declared as another kind"))
        ELSE [s1 EXCEPT !.calls[Len(s1.calls)].type = sym_lookup(s1.ns_tag, tag),
                        !.calls[Len(s1.calls)].tag = tag],
        LAMBDA s2 :
            IF peek(s2) = "{" /\ s2.types[Local(s2).type].size # 0
            THEN exit(error(s2, "Redefiniton"))
            ELSE s2)))

\* struct_or_union_declaration: the member list in braces.
members_open(st) ==
    consume(IF Local(st).type # NULL THEN st
            ELSE [st EXCEPT !.types = type_init(@, Local(st).kind),
                            !.calls[Len(st.calls)].type = Len(st.types) + 1],
            {"{"})
members_list(st) == member_declaration_list(st, Local(st).type)
members_close(st) ==
    IF st.types[Local(st).type].size = 0 THEN abort(st) ELSE consume(st, {"}"})
members(st) ==
    IF peek(st) # "{" THEN st
    ELSE Run(Run(members_open(st), members_list), members_close)

\* struct_or_union_declaration: the type returned is left in st.type, and
\* the locals of declaration_specifiers are those of before the call.
tagged_copy(st) ==
    Then(Local(st), LAMBDA my :
        [st EXCEPT !.types = IF my.tag # "" THEN type_tagged_copy(@, my.type, my.tag)
                             ELSE @,
                   !.type = IF my.tag # "" THEN Len(st.types) + 1 ELSE my.type,
                   !.spec = my.spec, !.qual = my.qual, !.stc = my.stc,
                   !.done = my.done,
                   !.calls = SubSeq(@, 1, Len(@) - 1)])

\* struct_or_union_declaration().
struct_or_union_declaration(st) ==
    Run(Run(Run(next(enter(st, [kind |-> IF peek(st) = "struct" THEN "T_STRUCT"
                                        ELSE "T_UNION",
                               type |-> NULL, tag |-> "",
                               spec |-> st.spec, qual |-> st.qual, stc |-> st.stc,
                               done |-> st.done])),
                tag_symbol),
            members),
        tagged_copy)

\* The symbol type and the linkage that declaration() derives from the
\* storage class and the depth.
symbol_class(stc, depth) ==
    CASE stc = "extern" -> [symtype |-> "SYM_DECLARATION", linkage |-> "LINK_EXTERN"]
      [] stc = "static" -> [symtype |-> "SYM_TENTATIVE", linkage |-> "LINK_INTERN"]
      [] stc = "typedef" -> [symtype |-> "SYM_TYPEDEF", linkage |-> "LINK_NONE"]
      [] OTHER -> IF depth = 0
                  THEN [symtype |-> "SYM_TENTATIVE", linkage |-> "LINK_EXTERN"]
                  ELSE [symtype |-> "SYM_DEFINITION", linkage |-> "LINK_NONE"]

\* define_builtin__func__(name).
define_builtin__func__(st) ==
    IF Len(st.marks.ns_ident) # 1 THEN abort(st)
    ELSE Then([st EXCEPT !.types = type_init_array(@, CHAR, 2)], LAMBDA s1 :
            sym_add(s1, "__func__", Len(s1.types), "SYM_STRING_VALUE"))

\* declaration(): the loop over the parameters of the function defined.
RECURSIVE define_parameters(_, _, _)
define_parameters(st, func, i) ==
    IF i > nmembers(st.types, func) THEN st
    ELSE Then(get_member(st.types, func, i), LAMBDA member :
         IF member.name = ""
         THEN exit(error(st, "Missing parameter name"))
         ELSE Then(sym_add(st, member.name, member.type, "SYM_DEFINITION"), LAMBDA s1 :
              Then(sym_list_add(s1, s1.defs.len, "params"), LAMBDA s2 :
                  define_parameters(s2, func, i + 1))))

RECURSIVE parse_declaration(_, _)
RECURSIVE block(_)

\* A statement of a block: a declaration, a block, or the empty statement.
block_item(st) ==
    CASE peek(st) = "{" -> block(st)
      [] peek(st) = ";" -> consume(st, {";"})
      [] peek(st) \in SpecifierTokens \cup StorageClasses
                        \cup {"struct", "union", "enum"} ->
            parse_declaration(st, TRUE)
      [] OTHER -> exit(error(st, "Unexpected token"))

RECURSIVE block_items(_)
block_items(st) == IF peek(st) # "}" THEN Run(block_item(st), block_items) ELSE st

block_push_scopes(st) == push_scope(push_scope(st, "ns_ident"), "ns_tag")
block_close(st) == consume(st, {"}"})
block_pop_scopes(st) == pop_scope(pop_scope(st, "ns_tag"), "ns_ident")

\* block(parent): a compound statement in scopes of its own.
block(st) ==
    Run(Run(Run(Run(consume(st, {"{"}), block_push_scopes), block_items), block_close),
        block_pop_scopes)

\* declaration(): case '=' of the switch, up to the initializer.
initialized_symbol(st) ==
    Then(Local(st), LAMBDA my :
    Run(IF my.sym.symtype = "SYM_DECLARATION"
        THEN exit(error(st, "Extern symbol cannot be initialized"))
        ELSE IF my.sym.depth = 0 /\ my.sym.symtype = "SYM_DEFINITION"
        THEN exit(error(st, "Symbol was already defined"))
        ELSE consume(st, {"="}), LAMBDA s1 :
        IF my.sym.linkage = "LINK_NONE"
        THEN (IF ~my.parent THEN abort(s1) ELSE s1)
        ELSE IF ~(my.sym.depth # 0 \/ ~my.parent) THEN abort(s1)
        ELSE push_back_definition(s1, my.sym.id, FALSE)))

symbol_initializer(st) == initializer(st, Local(st).sym.type, 0, Local(st).sym.type)

\* declaration(): case '=' of the switch, after the initializer; over is
\* whether the declaration has returned.
initialized_end(st) ==
    IF size_of(st.types, Local(st).sym.type) = 0 THEN abort(st)
    ELSE IF peek(st) # ","
    THEN Run(consume(st, {";"}), LAMBDA s1 :
            [s1 EXCEPT !.calls[Len(s1.calls)].over = TRUE])
    ELSE st

initialized(st) ==
    Run(Run(initialized_symbol(st), symbol_initializer), initialized_end)

\* declaration(): case '{' of the switch.
function_symbol(st) ==
    Then(Local(st), LAMBDA my :
        IF ~is_function(st.types, my.sym.type) \/ my.sym.depth # 0
        THEN exit(error(st, "Invalid function definition"))
        ELSE IF my.parent \/ my.sym.linkage = "LINK_NONE" THEN abort(st)
        ELSE push_scope(push_back_definition(st, my.sym.id, TRUE), "ns_ident"))
function_parameters(st) == define_parameters(st, Local(st).sym.type, 1)
function_pop_scope(st) ==
    [pop_scope(st, "ns_ident") EXCEPT !.calls[Len(st.calls)].over = TRUE]

function_definition(st) ==
    Run(Run(Run(Run(function_symbol(st), define_builtin__func__), function_parameters),
            block),
        function_pop_scope)

RECURSIVE init_declarators(_)

\* declaration(): the symbol that a declarator has declared.
declared(st) ==
    IF st.name = ""
    THEN Run(consume(st, {";"}), LAMBDA s1 :
            [s1 EXCEPT !.calls[Len(s1.calls)].over = TRUE])
    ELSE
    Then(sym_add(st, st.name, st.type, Local(st).class.symtype), LAMBDA s1 :
    Then([id |-> Len(s1.ns_ident), type |-> st.type,
          symtype |-> Local(st).class.symtype,
          linkage |-> Local(st).class.linkage,
          depth |-> Len(s1.marks.ns_ident)], LAMBDA sym :
    Then([s1 EXCEPT !.calls[Len(s1.calls)].sym = sym], LAMBDA s2 :
        IF sym.depth = 0 THEN s2
        ELSE IF sym.depth = 1 THEN abort(s2)
        ELSE sym_list_add(s2, current_func(s2.defs), "locals"))))

next_declarator(st) ==
    IF Local(st).over THEN st
    ELSE Run(consume(st, {","}), init_declarators)

\* declaration(): the switch on the token after the declarator.
after_declarator(st) ==
    CASE Local(st).over -> st
      [] peek(st) = ";" ->
            [consume(st, {";"}) EXCEPT !.calls[Len(st.calls)].over = TRUE]
      [] peek(st) = "=" -> initialized(st)
      [] peek(st) = "{" -> function_definition(st)
      [] OTHER -> st

\* declaration(): one turn of its while loop, and the turns after it.
init_declarators(st) ==
    Run(Run(Run(parse_declarator([st EXCEPT !.type = Local(st).base, !.name = ""]),
                declared),
            after_declarator),
        next_declarator)

\* declaration(): the switch on the storage class.
declaration_class(st) ==
    [st EXCEPT !.calls[Len(st.calls)].base = st.type,
               !.calls[Len(st.calls)].class =
                    symbol_class(st.stc, Len(st.marks.ns_ident))]

declaration_return(st) == return(st, "declaration")

\* declaration(parent); parent is whether a block is given.
parse_declaration(st, parent) ==
    Run(Run(Run(Run(enter(st, [entered |-> Depths(st), parent |-> parent,
                              base |-> NULL, class |-> symbol_class("$", 0),
                              sym |-> NULL, over |-> FALSE]),
                    parse_declaration_specifiers),
                declaration_class),
            init_declarators),
        declaration_return)

\* The member lists of up to MaxMembers member declarations, and the
\* declarations: specifiers before a list of declarators or a function body.
Members ==
    { <<"int", "x", ";">>,
      <<"int", "x", ",", "*", "y", ";">>,
      <<"char", "y", "[", "2", "]", ";">>,
      <<"int", ";">>,
      <<"int", "x", "[", "]", ";">>,
      <<"struct", "{", "int", "A", ";", "}", "B", ";">>,
      <<"struct", "S", "{", "char", "A", ";", "}", "B", ";">>,
      <<"struct", "S", "y", ";">>,
      <<"union", "{", "int", "A", ",", "B", ";", "}", "E", ";">>,
      <<"struct", "{", "struct", "{", "int", "A", ";", "}", "B", ";", "}", "E", ";">> }
RECURSIVE MemberListsOf(_)
MemberListsOf(n) ==
    IF n = 0 THEN {<< >>}
    ELSE {m \o l : m \in Members, l \in MemberListsOf(n - 1)}
MemberLists ==
    {l \o <<"}">> : l \in UNION {MemberListsOf(n) : n \in 1..MaxMembers}}

DeclarationHeads ==
    { <<"int">>, <<"static", "int">>, <<"extern", "int">>, <<"typedef", "int">>,
      <<"struct", "S", "{", "int", "A", ";", "}">> }
Bodies ==
    { << >>,
      <<"int", "y", ";">>,
      <<"int", "y", "=", "1", ";">>,
      <<"static", "int", "y", "=", "1", ";">>,
      <<"{", "int", "y", ";", "}">>,
      <<"{", "{", ";", "}", "}", "int", "y", ";">>,
      <<"struct", "S", "{", "int", "A", ";", "}", "y", ";">>,
      <<"y">> }
DeclarationTails ==
    { <<";">>,
      <<"x", ";">>,
      <<"x", "=", "1", ";">>,
      <<"x", ",", "y", "=", "2", ";">>,
      <<"x", "=", "1", ",", "*", "y", ";">>,
      <<"x", "[", "]", "=", "{", "1", ",", "2", "}", ";">>,
      <<"x", "{", "}">>,
      <<"x", "y">> }
    \cup {<<"f", "(">> \o p \o <<")", "{">> \o b \o <<"}">> :
            p \in {<<"void">>, <<"int", "x">>, <<"int">>}, b \in Bodies}
Declarations2 == {h \o t : h \in DeclarationHeads, t \in DeclarationTails}

InitScope ==
    /\ \/ /\ fn_name = "member_declaration_list"
          /\ types = type_init(BasicRegistry, "T_STRUCT")
          /\ fn_arg = Len(types)
          /\ tokens \in MemberLists
       \/ /\ fn_name = "declaration"
          /\ types = BasicRegistry
          /\ fn_arg = NULL
          /\ tokens \in Declarations2
    /\ fn_result = NULL
    /\ ns_tag = << >>
    /\ ns_ident = << >>
    /\ diagnostics = << >>
    /\ statements = << >>
    /\ status = "run"
    /\ open = << >>
    /\ pending = NULL
    /\ unsound = {}
    /\ ndecls = 0
    /\ args = << >>
    /\ ret = VOID
    /\ params = << >>
    /\ res = << >>
    /\ next_integer_reg = 0
    /\ int_regs = << >>
    /\ pc = "idle"
    /\ EncIdle
    /\ defs = ZeroDefs
    /\ fallback = EmptyDefinition
    /\ last_def_returned = EmptyDefinition
    /\ heap = [live |-> {}, next |-> 1, twice |-> FALSE]
    /\ retval = EmptyDefinition
    /\ log = [called |-> FALSE, consumed |-> 0, returns |-> << >>,
              depths |-> [ns_ident |-> 0, ns_tag |-> 0, ns |-> << >>]]

\* The state of the parser when the routine is entered at file scope.
EntryScope ==
    [toks |-> tokens, consumed |-> 0, types |-> types, ns_tag |-> ns_tag,
     ns_ident |-> ns_ident, diagnostics |-> diagnostics, exited |-> FALSE,
     spec |-> 0, qual |-> Q_NONE, type |-> NULL, stc |-> "$", done |-> FALSE,
     enum_value |-> 0, val |-> NULL, name |-> "", length |-> 0,
     crashed |-> FALSE, aborted |-> FALSE, statements |-> statements,
     i |-> 0,
     marks |-> [ns_ident |-> << >>, ns_tag |-> << >>], frames |-> << >>,
     calls |-> << >>, returns |-> << >>,
     defs |-> defs, fallback |-> fallback, heap |-> heap,
     log |-> [buffered |-> << >>, made |-> << >>]]

LeaveScope(out) ==
    /\ tokens' = out.toks
    /\ types' = out.types
    /\ ns_tag' = out.ns_tag
    /\ ns_ident' = out.ns_ident
    /\ diagnostics' = out.diagnostics
    /\ statements' = out.statements
    /\ status' = IF out.crashed THEN "crash"
                  ELSE IF out.aborted THEN "abort"
                  ELSE IF out.exited THEN "exit" ELSE "run"
    /\ defs' = out.defs
    /\ fallback' = out.fallback
    /\ heap' = out.heap
    /\ log' = [called |-> TRUE, consumed |-> out.consumed, returns |-> out.returns,
               depths |-> Depths(out)]
    /\ UNCHANGED <<open, pending, unsound, ndecls, abi, enc, fnv>>
    /\ UNCHANGED <<last_def_returned, retval>>

MemberDeclarationList ==
    /\ fn_name = "member_declaration_list"
    /\ ~log.called
    /\ \E out \in {member_declaration_list(EntryScope, fn_arg)} : LeaveScope(out)

Declaration ==
    /\ fn_name = "declaration"
    /\ ~log.called
    /\ \E out \in {parse_declaration(EntryScope, FALSE)} : LeaveScope(out)

NextScope ==
    \/ MemberDeclarationList
    \/ Declaration

SpecScope == InitScope /\ [][NextScope]_vars

\* C27: every push_scope performed by a parser routine is matched by one
\* pop_scope before that routine returns: whenever member_declaration_list
\* or declaration returns, the scope depth of every namespace equals its
\* depth when the routine was entered.
C27_ScopesMatched ==
    /\ \A r \in DOMAIN log.returns : log.returns[r].left = log.returns[r].entered
    /\ (log.called /\ status = "run") =>
            log.depths = [ns_ident |-> 0, ns_tag |-> 0, ns |-> << >>]

\* A function definition with a block in its body and a member list in a
\* local struct: three routines returned, declaration from depth 2 too.
C27_Witness ==
    /\ log.called
    /\ status = "run"
    /\ tokens = << >>
    /\ \E r \in DOMAIN log.returns :
          /\ log.returns[r].routine = "member_declaration_list"
          /\ log.returns[r].entered.ns_ident = 2
          /\ log.returns[r].entered.ns = <<0>>
    /\ \E r \in DOMAIN log.returns :
          /\ log.returns[r].routine = "declaration"
          /\ log.returns[r].entered.ns_ident = 2
    /\ log.returns[Len(log.returns)].routine = "declaration"
    /\ log.returns[Len(log.returns)].entered.ns_ident = 0
    /\ defs.len = 1

\* A member list in a member list: both returned with their namespaces at
\* the depth of their entry.
C27_WitnessNested ==
    /\ log.called
    /\ fn_name = "member_declaration_list"
    /\ status = "run"
    /\ \E r \in DOMAIN log.returns : log.returns[r].entered.ns = <<1, 1, 0>>

====
